---------------------------- MODULE Spec2Model ----------------------------
(***************************************************************************)
(* Model of semis_pipeline/processing/cleaning.py: the name normalizer,    *)
(* the fuzzy matcher and the merge engine clean_and_merge_player_data.     *)
(*                                                                         *)
(* A Python str is the sequence of its characters, each a one-character    *)
(* TLA+ string.  A CSV cell is such a sequence; the absent value (pandas   *)
(* NaN) is the one-element sequence NaN.  A Python dict is the sequence of *)
(* its <<key, value>> pairs in insertion order.                            *)
(***************************************************************************)
EXTENDS Integers, Sequences, FiniteSets, TLC

VARIABLES
    \* ---- normalize_name applied to one input (SpecNorm)
    nm_pc, nm_in, nm_out, nm_out2,
    \* ---- fuzzy_name_match applied to one input (SpecFuzzy)
    fz_pc, fz_name, fz_cands, fz_thr, fz_ret,
    \* ---- clean_and_merge_player_data (Spec)
    pc,                          \* the statement the call stands at
    br_file, espn_file,          \* the two CSV files: a table, or Unreadable
    br_df, espn_df,              \* the loaded frames
    br_i,                        \* rows of br_df the index loop has visited
    br_lookup,                   \* canonical key -> primary row (a dict)
    br_names_for_fuzzy_prepped,  \* <<original name, set of tokens>> list
    espn_i,                      \* rows of espn_df the merge loop has visited
    merged_data, unmatched_players, exact_matches, fuzzy_matches,
    ret,                         \* the returned triple, None before the return
    error,                       \* the exception that left the call, or None
    log,                         \* ghost: per visited secondary row, what the loop did
    \* ---- a field formatter applied to one input (SpecDate, SpecHeight)
    fm_pc, fm_in, fm_out,
    \* ---- the caller of clean_and_merge_player_data or save_merged_data
    caller,                      \* which caller runs, "none" for a bare call
    caller_pc,                   \* the statement the caller stands at
    caller_ret,                  \* what the caller returned, Unset before
    caller_error,                \* the exception that left the caller, or None
    save_arg,                    \* merged_data_list of a bare save_merged_data call
    save_ret,                    \* what save_merged_data returned, Unset before
    out_file,                    \* the CSV at output_path: None, or the frame written
    first_ret,                   \* the result of the first of two calls
    w_out,                       \* per secondary row, the output a worker produced
    \* ---- the asset job of pipeline.py (SpecPipeline)
    br_stage, espn_stage         \* how far each fetch stage and its check have come

nm_vars == <<nm_pc, nm_in, nm_out, nm_out2>>

fz_vars == <<fz_pc, fz_name, fz_cands, fz_thr, fz_ret>>

mg_vars == <<pc, br_file, espn_file, br_df, espn_df, br_i, br_lookup,
             br_names_for_fuzzy_prepped, espn_i, merged_data, unmatched_players,
             exact_matches, fuzzy_matches, ret, error, log>>

fm_vars == <<fm_pc, fm_in, fm_out>>

cl_vars == <<caller, caller_pc, caller_ret, caller_error, save_arg, save_ret,
             out_file, first_ret, w_out>>

job_vars == <<br_stage, espn_stage>>

vars == <<nm_vars, fz_vars, mg_vars, fm_vars, cl_vars, job_vars>>

-----------------------------------------------------------------------------
(* Bounds of the model *)

\* longest generated input of normalize_name
MaxNameLen == 4

\* most tokens in a generated secondary name of fuzzy_name_match
MaxTokens == 2

\* longest generated candidate list of fuzzy_name_match
MaxCands == 2

\* most rows in a generated primary dataset
MaxBRRows == 2

\* most rows in a generated secondary dataset
MaxESPNRows == 2

-----------------------------------------------------------------------------
(* Characters and the str methods the code uses *)

NaN == <<"NaN">>

None == <<"None">>

Unset == <<"unset">>

\* the frame of a variable that holds none yet
NoFrame == [cols |-> <<>>, rows |-> <<>>]

\* The file at output_path: absent, or the frame df.to_csv wrote.
NoFile == [exists |-> FALSE, frame |-> NoFrame]

WrittenFile(frame) == [exists |-> TRUE, frame |-> frame]

\* A file is [readable, frame]: the table pd.read_csv returns for it, or a
\* file pd.read_csv raises on (missing, unreadable or malformed).
CsvFile(frame) == [readable |-> TRUE, frame |-> frame]

Unreadable == [readable |-> FALSE, frame |-> NoFrame]

pd_isna(x) == x = NaN

\* The three characters outside ASCII that the patterns name or match: the
\* no-break space U+00A0 and the letters U+00C2, U+00C0 with their lower cases.
NBSP == "<U+00A0>"

A_CIRCUMFLEX == "<U+00C2>"

A_GRAVE == "<U+00C0>"

Lowers == <<"a","b","c","d","e","f","g","h","i","j","k","l","m",
            "n","o","p","q","r","s","t","u","v","w","x","y","z",
            "<U+00E2>", "<U+00E0>">>

Uppers == <<"A","B","C","D","E","F","G","H","I","J","K","L","M",
            "N","O","P","Q","R","S","T","U","V","W","X","Y","Z",
            A_CIRCUMFLEX, A_GRAVE>>

Digits == {"0","1","2","3","4","5","6","7","8","9"}

Whitespace == {" ", "\t", NBSP}

LowerSet == {Lowers[i] : i \in 1..Len(Lowers)}

UpperSet == {Uppers[i] : i \in 1..Len(Uppers)}

\* str.lower and str.upper, letter by letter
LowerMap == [c \in UpperSet |-> Lowers[CHOOSE i \in 1..Len(Uppers) : Uppers[i] = c]]

UpperMap == [c \in LowerSet |-> Uppers[CHOOSE i \in 1..Len(Lowers) : Lowers[i] = c]]

IsLower(c) == c \in LowerSet

IsUpper(c) == c \in UpperSet

ToLower(c) == IF c \in UpperSet THEN LowerMap[c] ELSE c

ToUpper(c) == IF c \in LowerSet THEN UpperMap[c] ELSE c

\* \w of the re module
WordChars == LowerSet \cup UpperSet \cup Digits \cup {"_"}

IsWord(c) == c \in WordChars

\* \s of the re module, and the characters str.strip and str.split cut at
IsSpace(c) == c \in Whitespace

SetMin(S) == CHOOSE m \in S : \A n \in S : m <= n

SetMax(S) == CHOOSE m \in S : \A n \in S : m >= n

str_lower(s) == [i \in 1..Len(s) |-> ToLower(s[i])]

str_isupper(s) ==
    /\ \E i \in 1..Len(s) : IsUpper(s[i])
    /\ \A i \in 1..Len(s) : ~IsLower(s[i])

str_capitalize(s) ==
    [i \in 1..Len(s) |-> IF i = 1 THEN ToUpper(s[i]) ELSE ToLower(s[i])]

str_strip(s) ==
    LET keep == {i \in 1..Len(s) : ~IsSpace(s[i])}
    IN  IF keep = {} THEN <<>> ELSE SubSeq(s, SetMin(keep), SetMax(keep))

\* s.split(): the maximal runs of non-whitespace characters, in order
RECURSIVE str_split(_)
str_split(s) ==
    IF s = <<>> THEN <<>>
    ELSE IF IsSpace(s[1]) THEN str_split(Tail(s))
    ELSE LET stops == {i \in 1..Len(s) : IsSpace(s[i])}
             end == IF stops = {} THEN Len(s) ELSE SetMin(stops) - 1
         IN  <<SubSeq(s, 1, end)>> \o str_split(SubSeq(s, end + 1, Len(s)))

RECURSIVE str_join(_, _)
str_join(sep, words) ==
    IF words = <<>> THEN <<>>
    ELSE IF Len(words) = 1 THEN words[1]
    ELSE words[1] \o sep \o str_join(sep, Tail(words))

StartsWith(s, p) == Len(p) <= Len(s) /\ SubSeq(s, 1, Len(p)) = p

\* s.replace(old, new) for a non-empty old: leftmost non-overlapping occurrences
RECURSIVE str_replace(_, _, _)
str_replace(s, old, new) ==
    IF s = <<>> THEN <<>>
    ELSE IF StartsWith(s, old)
         THEN new \o str_replace(SubSeq(s, Len(old) + 1, Len(s)), old, new)
         ELSE <<s[1]>> \o str_replace(Tail(s), old, new)

-----------------------------------------------------------------------------
(* The compiled patterns normalize_name uses *)

\* \b at offset i of s (between s[i] and s[i+1]; 0 and Len(s) are the ends)
WordBoundary(s, i) ==
    LET before == i >= 1 /\ IsWord(s[i])
        after  == i < Len(s) /\ IsWord(s[i + 1])
    IN  before # after

\* the alternatives of RE_SUFFIXES, in the order the pattern tries them
SuffixAlternatives ==
    << <<"j","r">>, <<"s","r">>, <<"i","i">>, <<"i","i","i">>, <<"i","v">>, <<"v">> >>

\* Length of the match of  alt \.? \b  at offset i (0: no match).  The
\* optional period is greedy: taken first, given up when \b fails after it.
SuffixTailLen(s, i, alt) ==
    LET e == i + Len(alt)
    IN  IF ~(e <= Len(s) /\ SubSeq(s, i + 1, e) = alt) THEN 0
        ELSE IF e < Len(s) /\ s[e + 1] = "." /\ WordBoundary(s, e + 1)
             THEN Len(alt) + 1
        ELSE IF WordBoundary(s, e) THEN Len(alt)
        ELSE 0

\* Length of the match of RE_SUFFIXES starting at offset i (0: no match)
SuffixMatchLen(s, i) ==
    IF ~WordBoundary(s, i) THEN 0
    ELSE LET hits == {k \in 1..Len(SuffixAlternatives) :
                        SuffixTailLen(s, i, SuffixAlternatives[k]) > 0}
         IN  IF hits = {} THEN 0
             ELSE SuffixTailLen(s, i, SuffixAlternatives[SetMin(hits)])

\* RE_SUFFIXES.sub("", s), scanning from offset i.  The pattern is compiled
\* with IGNORECASE, so it is matched on the lower-cased text.
RECURSIVE SuffixSubFrom(_, _, _)
SuffixSubFrom(s, low, i) ==
    IF i >= Len(s) THEN <<>>
    ELSE LET n == SuffixMatchLen(low, i)
         IN  IF n > 0 THEN SuffixSubFrom(s, low, i + n)
             ELSE <<s[i + 1]>> \o SuffixSubFrom(s, low, i + 1)

RE_SUFFIXES_sub(s) == SuffixSubFrom(s, str_lower(s), 0)

\* RE_PUNCTUATION.sub("", s): drops every character that is not \w, \s or '
RE_PUNCTUATION_sub(s) ==
    SelectSeq(s, LAMBDA c : IsWord(c) \/ IsSpace(c) \/ c = "'")

\* RE_MULTIPLE_SPACES.sub(rep, s): every maximal whitespace run becomes rep
RECURSIVE RE_MULTIPLE_SPACES_sub(_, _)
RE_MULTIPLE_SPACES_sub(rep, s) ==
    IF s = <<>> THEN <<>>
    ELSE IF IsSpace(s[1])
         THEN LET rest == {i \in 1..Len(s) : ~IsSpace(s[i])}
              IN  IF rest = {} THEN rep
                  ELSE rep \o RE_MULTIPLE_SPACES_sub(rep, SubSeq(s, SetMin(rest), Len(s)))
         ELSE <<s[1]>> \o RE_MULTIPLE_SPACES_sub(rep, Tail(s))

\* NAME_REPLACEMENTS, as <<variant, standard>> pairs in dict order
NAME_REPLACEMENTS ==
    << << <<"s","h","a","q","u","i","l","l","e"," ","o","n","e","a","l">>,
          <<"s","h","a","q","u","i","l","l","e"," ","o","'","n","e","a","l">> >> >>

RECURSIVE ApplyReplacements(_, _)
ApplyReplacements(s, table) ==
    IF table = <<>> THEN s
    ELSE ApplyReplacements(str_replace(s, table[1][1], table[1][2]), Tail(table))

-----------------------------------------------------------------------------
(* normalize_name *)

\* the all-caps branch: " ".join(word.capitalize() for word in name_str.split())
CapitalizeWords(s) ==
    LET words == str_split(s)
    IN  str_join(<<" ">>, [i \in 1..Len(words) |-> str_capitalize(words[i])])

normalize_name(name) ==
    IF pd_isna(name) THEN <<>>
    ELSE LET s1 == str_strip(name)
             s2 == IF str_isupper(s1) THEN CapitalizeWords(s1) ELSE s1
             s3 == str_lower(s2)
             s4 == RE_SUFFIXES_sub(s3)
             s5 == ApplyReplacements(s4, NAME_REPLACEMENTS)
             s6 == RE_PUNCTUATION_sub(s5)
         IN  str_strip(RE_MULTIPLE_SPACES_sub(<<" ">>, s6))

-----------------------------------------------------------------------------
(* SpecNorm: normalize_name applied to an input, then to its own result *)

RECURSIVE SeqsUpTo(_, _)
SeqsUpTo(S, n) ==
    IF n = 0 THEN {<<>>}
    ELSE LET shorter == SeqsUpTo(S, n - 1)
         IN  shorter \cup {Append(s, c) : s \in {t \in shorter : Len(t) = n - 1}, c \in S}

\* the characters of the generated inputs: letters of the suffix tokens in
\* both cases, a letter of no suffix, and the separators the patterns treat
NormChars == {"j", "r", "J", "v", "a", ".", " ", "'"}

\* display names of the kind the datasets hold
SampleNames ==
    { <<"L","e","B","r","o","n"," ","J","a","m","e","s">>,
      <<"L","E","B","R","O","N"," ","J","A","M","E","S">>,
      <<"J","a","m","e","s"," ","W","o","r","t","h","y"," ","J","r",".">>,
      <<"J","a","m","e","s"," ","W","o","r","t","h","y">>,
      <<"J","a","m","a","l"," ","M","u","r","r","a","y">>,
      <<"J",".","R","."," ","S","m","i","t","h">>,
      <<"S","h","a","q","u","i","l","l","e"," ","O","N","e","a","l">>,
      <<"S","h","a","q","u","i","l","l","e"," ","O",".","N","e","a","l">>,
      <<"V",".","J","."," ","E","d","g","e","c","o","m","b","e">> }

NormInputs == SeqsUpTo(NormChars, MaxNameLen) \cup SampleNames \cup {NaN}

\* the variables of a call that the specification at hand does not make
NormIdle == nm_pc = "idle" /\ nm_in = Unset /\ nm_out = Unset /\ nm_out2 = Unset

FuzzyIdle ==
    fz_pc = "idle" /\ fz_name = Unset /\ fz_cands = <<>> /\ fz_thr = 0 /\ fz_ret = Unset

FormatIdle == fm_pc = "idle" /\ fm_in = Unset /\ fm_out = Unset

CallerIdle ==
    /\ caller = "none" /\ caller_pc = "idle"
    /\ caller_ret = Unset /\ caller_error = None
    /\ save_arg = Unset /\ save_ret = Unset /\ out_file = NoFile
    /\ first_ret = Unset /\ w_out = <<>>

JobIdle == br_stage = "none" /\ espn_stage = "none"

MergeIdle ==
    /\ pc = "idle" /\ br_file = Unreadable /\ espn_file = Unreadable
    /\ br_df = NoFrame /\ espn_df = NoFrame /\ br_i = 0 /\ br_lookup = <<>>
    /\ br_names_for_fuzzy_prepped = <<>> /\ espn_i = 0
    /\ merged_data = <<>> /\ unmatched_players = <<>>
    /\ exact_matches = 0 /\ fuzzy_matches = 0
    /\ ret = None /\ error = None /\ log = <<>>

NormInit ==
    /\ nm_pc = "start"
    /\ nm_in \in NormInputs
    /\ nm_out = Unset
    /\ nm_out2 = Unset
    /\ FuzzyIdle
    /\ MergeIdle
    /\ FormatIdle
    /\ CallerIdle /\ JobIdle

NormApply ==
    /\ nm_pc = "start"
    /\ nm_out' = normalize_name(nm_in)
    /\ nm_pc' = "once"
    /\ UNCHANGED <<nm_in, nm_out2, fz_vars, mg_vars, fm_vars, job_vars, cl_vars>>

NormApplyAgain ==
    /\ nm_pc = "once"
    /\ nm_out2' = normalize_name(nm_out)
    /\ nm_pc' = "twice"
    /\ UNCHANGED <<nm_in, nm_out, fz_vars, mg_vars, fm_vars, job_vars, cl_vars>>

NormNext == NormApply \/ NormApplyAgain

SpecNorm == NormInit /\ [][NormNext]_vars

-----------------------------------------------------------------------------
(* fuzzy_name_match *)

\* sum(1 for part in espn_parts if part in br_parts_set)
CountMatches(espn_parts, br_parts_set) ==
    Cardinality({i \in 1..Len(espn_parts) : espn_parts[i] \in br_parts_set})

\* a threshold test that forgets to scale by the token count
MeetsThreshold_Unscaled(matches, n, tenths) == matches * 10 >= tenths

\* matches >= len(espn_parts) * threshold, the threshold given in tenths
MeetsThreshold(matches, n, tenths) == matches * 10 >= n * tenths

\* a comparison that also takes a candidate of equal score
ScoreGreater_OrEqual(a, b) == a[1] * b[2] >= b[1] * a[2]

\* A score is the fraction <<numerator, denominator>>; highest_score starts at -1
ScoreGreater(a, b) == a[1] * b[2] > b[1] * a[2]

ScoreIsOne(a) == a[1] = a[2]

\* The loop over br_names_normalized_parts_list from candidate i on, with the
\* early return at a score of 1.0; falls through to return best_match_name.
RECURSIVE FuzzyLoop(_, _, _, _, _, _)
FuzzyLoop(espn_parts, cands, tenths, i, best_match_name, highest_score) ==
    IF i > Len(cands) THEN best_match_name
    ELSE LET original_br_name == cands[i][1]
             br_parts_set == cands[i][2]
             matches == CountMatches(espn_parts, br_parts_set)
             current_score == <<matches, Len(espn_parts)>>
         IN  IF br_parts_set = {}
             THEN FuzzyLoop(espn_parts, cands, tenths, i + 1, best_match_name, highest_score)
             ELSE IF MeetsThreshold(matches, Len(espn_parts), tenths)
                     /\ ScoreGreater(current_score, highest_score)
             THEN IF ScoreIsOne(current_score)
                  THEN original_br_name
                  ELSE FuzzyLoop(espn_parts, cands, tenths, i + 1, original_br_name, current_score)
             ELSE FuzzyLoop(espn_parts, cands, tenths, i + 1, best_match_name, highest_score)

\* lines 100-131, on the tokens of the normalized secondary name
FuzzyOnParts(espn_parts, br_names_normalized_parts_list, tenths) ==
    IF espn_parts = <<>> THEN None
    ELSE FuzzyLoop(espn_parts, br_names_normalized_parts_list, tenths, 1, None, <<-1, 1>>)

\* lines 97-131, on the normalized secondary name
FuzzyOnNormalized(espn_normalized, br_names_normalized_parts_list, tenths) ==
    IF espn_normalized = <<>> THEN None
    ELSE FuzzyOnParts(str_split(espn_normalized), br_names_normalized_parts_list, tenths)

fuzzy_name_match(espn_name, br_names_normalized_parts_list, tenths) ==
    FuzzyOnNormalized(normalize_name(espn_name), br_names_normalized_parts_list, tenths)

\* threshold=0.8, the default the merge engine uses, in tenths
DefaultThresholdTenths == 8

-----------------------------------------------------------------------------
(* The field formatters *)

\* dict.get(key) on a dict given as <<key, value>> pairs; None when absent
DictGet(d, key) ==
    LET hits == {i \in 1..Len(d) : d[i][1] = key}
    IN  IF hits = {} THEN None ELSE d[SetMin(hits)][2]

DictHas(d, key) == \E i \in 1..Len(d) : d[i][1] = key

\* the digits s starts with from offset i on: \d+ or \d* taken greedily
DigitRun(s, i) ==
    LET stops == {j \in (i + 1)..Len(s) : s[j] \notin Digits}
    IN  IF stops = {} THEN Len(s) - i ELSE SetMin(stops) - 1 - i

\* the characters of class S that s starts with from offset i on
ClassRun(s, i, S) ==
    LET stops == {j \in (i + 1)..Len(s) : s[j] \notin S}
    IN  IF stops = {} THEN Len(s) - i ELSE SetMin(stops) - 1 - i

zfill2_Unpadded(s) == s

\* str.zfill(2)
zfill2(s) == IF Len(s) < 2 THEN <<"0">> \o s ELSE s

\* RE_BORN_PREFIX.sub("", s): ^in\s*([..]\s*)? with IGNORECASE, at the start only
RE_BORN_PREFIX_sub(s) ==
    IF ~(Len(s) >= 2 /\ ToLower(s[1]) = "i" /\ ToLower(s[2]) = "n") THEN s
    ELSE LET a == 2 + ClassRun(s, 2, Whitespace)
             b == IF a < Len(s) /\ ToUpper(s[a + 1]) \in {A_CIRCUMFLEX, A_GRAVE}
                  THEN a + 1 + ClassRun(s, a + 1, Whitespace)
                  ELSE a
         IN  SubSeq(s, b + 1, Len(s))

\* RE_COMMA_SPACE.sub(", ", s): every comma with the whitespace after it
RECURSIVE RE_COMMA_SPACE_sub(_)
RE_COMMA_SPACE_sub(s) ==
    IF s = <<>> THEN <<>>
    ELSE IF s[1] = ","
         THEN <<",", " ">> \o
              RE_COMMA_SPACE_sub(SubSeq(s, 2 + ClassRun(s, 1, Whitespace), Len(s)))
         ELSE <<s[1]>> \o RE_COMMA_SPACE_sub(Tail(s))

format_born_location(location) ==
    IF pd_isna(location) THEN <<>>
    ELSE LET s1 == str_strip(location)
             s2 == RE_BORN_PREFIX_sub(s1)
             s3 == RE_MULTIPLE_SPACES_sub(<<" ">>, s2)
             s4 == RE_COMMA_SPACE_sub(s3)
         IN  str_strip(s4)

\* MONTH_TO_NUM_MAP, as <<key, value>> pairs in dict order
MONTH_TO_NUM_MAP ==
    << <<<<"j","a","n","u","a","r","y">>, <<"0","1">>>>,
       <<<<"f","e","b","r","u","a","r","y">>, <<"0","2">>>>,
       <<<<"m","a","r","c","h">>, <<"0","3">>>>,
       <<<<"a","p","r","i","l">>, <<"0","4">>>>,
       <<<<"m","a","y">>, <<"0","5">>>>,
       <<<<"j","u","n","e">>, <<"0","6">>>>,
       <<<<"j","u","l","y">>, <<"0","7">>>>,
       <<<<"a","u","g","u","s","t">>, <<"0","8">>>>,
       <<<<"s","e","p","t","e","m","b","e","r">>, <<"0","9">>>>,
       <<<<"o","c","t","o","b","e","r">>, <<"1","0">>>>,
       <<<<"n","o","v","e","m","b","e","r">>, <<"1","1">>>>,
       <<<<"d","e","c","e","m","b","e","r">>, <<"1","2">>>>,
       <<<<"j","a","n">>, <<"0","1">>>>,
       <<<<"f","e","b">>, <<"0","2">>>>,
       <<<<"m","a","r">>, <<"0","3">>>>,
       <<<<"a","p","r">>, <<"0","4">>>>,
       <<<<"j","u","n">>, <<"0","6">>>>,
       <<<<"j","u","l">>, <<"0","7">>>>,
       <<<<"a","u","g">>, <<"0","8">>>>,
       <<<<"s","e","p">>, <<"0","9">>>>,
       <<<<"o","c","t">>, <<"1","0">>>>,
       <<<<"n","o","v">>, <<"1","1">>>>,
       <<<<"d","e","c">>, <<"1","2">>>> >>

\* RE_MONTH_DAY_YEAR.match(s): (\w+)\s+(\d{1,2}),?\s*(\d{4}) from the start
\* of s.  The result is <<month_name, day, year>>, or None.  \w+ and \s+ can
\* only take their whole run; the day takes two digits first, then one.
MonthDayYearMatch(s) ==
    LET w == ClassRun(s, 0, {c \in {s[j] : j \in 1..Len(s)} : IsWord(c)})
        sp == ClassRun(s, w, Whitespace)
        d0 == w + sp
        Rest(dl) ==
            LET c == d0 + dl + (IF d0 + dl < Len(s) /\ s[d0 + dl + 1] = "," THEN 1 ELSE 0)
            IN  c + ClassRun(s, c, Whitespace)
        Fits(dl) == DigitRun(s, d0) >= dl /\ DigitRun(s, Rest(dl)) >= 4
        Groups(dl) == << SubSeq(s, 1, w), SubSeq(s, d0 + 1, d0 + dl),
                         SubSeq(s, Rest(dl) + 1, Rest(dl) + 4) >>
    IN  IF w = 0 \/ sp = 0 THEN None
        ELSE IF Fits(2) THEN Groups(2)
        ELSE IF Fits(1) THEN Groups(1)
        ELSE None

\* RE_YYYY_MM_DD.match(s): \d{4}-\d{2}-\d{2} from the start of s
YyyyMmDdMatch(s) ==
    /\ Len(s) >= 10
    /\ \A j \in {1, 2, 3, 4, 6, 7, 9, 10} : s[j] \in Digits
    /\ s[5] = "-" /\ s[8] = "-"

\* RE_MM_DD_YYYY.match(s): (\d{1,2})/(\d{1,2})/(\d{4}) from the start of s;
\* <<month, day, year>> or None
MmDdYyyyMatch(s) ==
    LET Try(ml, dl) ==
            /\ DigitRun(s, 0) >= ml
            /\ Len(s) > ml /\ s[ml + 1] = "/"
            /\ DigitRun(s, ml + 1) >= dl
            /\ Len(s) > ml + 1 + dl /\ s[ml + dl + 2] = "/"
            /\ DigitRun(s, ml + dl + 2) >= 4
        Groups(ml, dl) == << SubSeq(s, 1, ml), SubSeq(s, ml + 2, ml + 1 + dl),
                             SubSeq(s, ml + dl + 3, ml + dl + 6) >>
    IN  IF Try(2, 2) THEN Groups(2, 2)
        ELSE IF Try(2, 1) THEN Groups(2, 1)
        ELSE IF Try(1, 2) THEN Groups(1, 2)
        ELSE IF Try(1, 1) THEN Groups(1, 1)
        ELSE None

standardize_date_format(date_str) ==
    IF pd_isna(date_str) THEN <<>>
    ELSE LET s == str_strip(date_str)
             m1 == MonthDayYearMatch(s)
             month_num == IF m1 = None THEN None
                          ELSE DictGet(MONTH_TO_NUM_MAP, str_lower(m1[1]))
             m3 == MmDdYyyyMatch(s)
         IN  IF m1 # None /\ month_num # None
             THEN m1[3] \o <<"-">> \o month_num \o <<"-">> \o zfill2(m1[2])
             ELSE IF YyyyMmDdMatch(s) THEN s
             ELSE IF m3 # None
             THEN m3[3] \o <<"-">> \o zfill2(m3[1]) \o <<"-">> \o zfill2(m3[2])
             ELSE s

\* EXCEL_DATE_TO_HEIGHT_CONVERSIONS, as <<key, value>> pairs in dict order
EXCEL_DATE_TO_HEIGHT_CONVERSIONS ==
    << <<<<"j","a","n">>, <<"1">>>>,
       <<<<"f","e","b">>, <<"2">>>>,
       <<<<"m","a","r">>, <<"3">>>>,
       <<<<"a","p","r">>, <<"4">>>>,
       <<<<"m","a","y">>, <<"5">>>>,
       <<<<"j","u","n">>, <<"6">>>>,
       <<<<"j","u","l">>, <<"7">>>>,
       <<<<"a","u","g">>, <<"8">>>>,
       <<<<"s","e","p">>, <<"9">>>>,
       <<<<"o","c","t">>, <<"1","0">>>>,
       <<<<"n","o","v">>, <<"1","1">>>>,
       <<<<"d","e","c">>, <<"1","2">>>> >>

\* re.sub(old, new, s, flags=re.IGNORECASE) for a literal pattern old
RECURSIVE SubLiteralFrom(_, _, _, _, _)
SubLiteralFrom(old, new, s, low, i) ==
    IF i >= Len(s) THEN <<>>
    ELSE IF i + Len(old) <= Len(s) /\ SubSeq(low, i + 1, i + Len(old)) = old
         THEN new \o SubLiteralFrom(old, new, s, low, i + Len(old))
         ELSE <<s[i + 1]>> \o SubLiteralFrom(old, new, s, low, i + 1)

re_sub_literal_ignorecase(old, new, s) == SubLiteralFrom(old, new, s, str_lower(s), 0)

RepairMonths_None(s, table) == s

\* the loop over EXCEL_DATE_TO_HEIGHT_CONVERSIONS.items(): "-Jun" -> "-6",
\* then "Jun-" -> "6-", one month after the other
RECURSIVE RepairMonths(_, _)
RepairMonths(s, table) ==
    IF table = <<>> THEN s
    ELSE LET month_abbr == table[1][1]
             month_num == table[1][2]
             s1 == re_sub_literal_ignorecase(<<"-">> \o month_abbr, <<"-">> \o month_num, s)
             s2 == re_sub_literal_ignorecase(month_abbr \o <<"-">>, month_num \o <<"-">>, s1)
         IN  RepairMonths(s2, Tail(table))

\* Length of the match of \b(alt1|alt2|...)\b with IGNORECASE at offset i
\* (0: no match): the first alternative, in order, that a \b follows
WordAltMatchLen(s, low, i, alts) ==
    IF ~WordBoundary(s, i) THEN 0
    ELSE LET hits == {k \in 1..Len(alts) :
                        /\ i + Len(alts[k]) <= Len(s)
                        /\ SubSeq(low, i + 1, i + Len(alts[k])) = alts[k]
                        /\ WordBoundary(s, i + Len(alts[k]))}
         IN  IF hits = {} THEN 0 ELSE Len(alts[SetMin(hits)])

RECURSIVE WordAltSubFrom(_, _, _, _)
WordAltSubFrom(s, low, i, alts) ==
    IF i >= Len(s) THEN <<>>
    ELSE LET n == WordAltMatchLen(s, low, i, alts)
         IN  IF n > 0 THEN WordAltSubFrom(s, low, i + n, alts)
             ELSE <<s[i + 1]>> \o WordAltSubFrom(s, low, i + 1, alts)

\* RE_HEIGHT_MONTH_WORDS.sub("", s)
RE_HEIGHT_MONTH_WORDS_sub(s) ==
    WordAltSubFrom(s, str_lower(s), 0, << <<"m","o","n","t","h">>, <<"m","o","n","t","h","s">>,
                            <<"m","o">>, <<"m","o","s">>, <<"m">> >>)

\* RE_HEIGHT_MONTH_ABBRS.sub("", s)
RE_HEIGHT_MONTH_ABBRS_sub(s) ==
    WordAltSubFrom(s, str_lower(s), 0, << <<"j","a","n">>, <<"f","e","b">>, <<"m","a","r">>, <<"a","p","r">>,
                            <<"m","a","y">>, <<"j","u","n">>, <<"j","u","l">>, <<"a","u","g">>,
                            <<"s","e","p">>, <<"o","c","t">>, <<"n","o","v">>, <<"d","e","c">> >>)

\* (\d+)['\s]*[-\s]*(\d+) matched at offset i, as <<feet, inches>> or None.
\* The feet take the whole digit run first; the first separator class then
\* takes the longest run that lets the second class reach a digit.  When no
\* such run exists the feet give back their last digit, which becomes the
\* inches with both separators empty.
HeightFtInAt(s, i) ==
    LET d == DigitRun(s, i)
        Inches(a) == i + d + a + ClassRun(s, i + d + a, Whitespace \cup {"-"})
        good == {a \in 0..ClassRun(s, i + d, Whitespace \cup {"'"}) :
                   DigitRun(s, Inches(a)) >= 1}
    IN  IF d = 0 THEN None
        ELSE IF good # {}
        THEN LET j == Inches(SetMax(good))
             IN  << SubSeq(s, i + 1, i + d), SubSeq(s, j + 1, j + DigitRun(s, j)) >>
        ELSE IF d >= 2 THEN << SubSeq(s, i + 1, i + d - 1), <<s[i + d]>> >>
        ELSE None

\* RE_HEIGHT_FT_IN.search(s): the leftmost offset the pattern matches at
HeightFtInSearch(s) ==
    LET starts == {i \in 0..(Len(s) - 1) : HeightFtInAt(s, i) # None}
    IN  IF starts = {} THEN None ELSE HeightFtInAt(s, SetMin(starts))

\* RE_HEIGHT_FT_ONLY.search(s): (\d+)['\s]*(?:ft|feet)?, the leftmost digit
\* run; its group 1, or None
HeightFtOnlySearch(s) ==
    LET starts == {i \in 0..(Len(s) - 1) : s[i + 1] \in Digits}
    IN  IF starts = {} THEN None
        ELSE SubSeq(s, SetMin(starts) + 1, SetMin(starts) + DigitRun(s, SetMin(starts)))

standardize_height_imperial(height_str) ==
    IF pd_isna(height_str) THEN <<>>
    ELSE LET s1 == str_strip(height_str)
             s2 == RepairMonths(s1, EXCEL_DATE_TO_HEIGHT_CONVERSIONS)
             s3 == RE_HEIGHT_MONTH_WORDS_sub(s2)
             s4 == RE_HEIGHT_MONTH_ABBRS_sub(s3)
             m1 == HeightFtInSearch(s4)
             m2 == HeightFtOnlySearch(s4)
         IN  IF m1 # None THEN m1[1] \o <<"-">> \o m1[2]
             ELSE IF m2 # None THEN m2 \o <<"-", "0">>
             ELSE str_strip(RE_MULTIPLE_SPACES_sub(<<>>, s4))

-----------------------------------------------------------------------------
(* SpecFuzzy: fuzzy_name_match applied to a name, a candidate list, a threshold *)

FuzzyTokens == {<<"a">>, <<"b">>, <<"c">>}

FuzzyNames ==
    {str_join(<<" ">>, ts) : ts \in SeqsUpTo(FuzzyTokens, MaxTokens)} \cup {NaN}

\* the k-th candidate carries the original name "k", so that the candidate a
\* call returned is told from its name
CandidateName(k) == <<"0","1","2","3","4","5","6","7","8","9">>[k + 1]

FuzzyCandidateLists ==
    {[k \in 1..Len(ps) |-> << <<CandidateName(k)>>, ps[k] >>] :
        ps \in SeqsUpTo(SUBSET FuzzyTokens, MaxCands)}

FuzzyThresholds == {5, DefaultThresholdTenths, 10}

FuzzyInit ==
    /\ fz_pc = "start"
    /\ fz_name \in FuzzyNames
    /\ fz_cands \in FuzzyCandidateLists
    /\ fz_thr \in FuzzyThresholds
    /\ fz_ret = Unset
    /\ NormIdle
    /\ MergeIdle
    /\ FormatIdle
    /\ CallerIdle /\ JobIdle

FuzzyApply ==
    /\ fz_pc = "start"
    /\ fz_ret' = fuzzy_name_match(fz_name, fz_cands, fz_thr)
    /\ fz_pc' = "returned"
    /\ UNCHANGED <<fz_name, fz_cands, fz_thr, nm_vars, mg_vars, fm_vars, job_vars, cl_vars>>

FuzzyNext == FuzzyApply

SpecFuzzy == FuzzyInit /\ [][FuzzyNext]_vars

-----------------------------------------------------------------------------
(* Python dicts and pandas frames *)

\* d[key] = value: in place when the key is there, appended otherwise
DictSet(d, key, value) ==
    IF DictHas(d, key)
    THEN [i \in 1..Len(d) |-> IF d[i][1] = key THEN <<key, value>> ELSE d[i]]
    ELSE Append(d, <<key, value>>)

\* del d[key]
DictDel(d, key) == SelectSeq(d, LAMBDA kv : kv[1] # key)

DictKeys(d) == [i \in 1..Len(d) |-> d[i][1]]

\* A frame is [cols |-> its column names in order, rows |-> its rows, each a
\* function from the column names to cells].
df_has(df, col) == \E k \in 1..Len(df.cols) : df.cols[k] = col

\* df[col]: the cells of the column, in row order
df_column(df, col) == [i \in 1..Len(df.rows) |-> df.rows[i][col]]

\* df[col] = values: the column is replaced in place, or appended
df_set(df, col, values) ==
    [cols |-> IF df_has(df, col) THEN df.cols ELSE Append(df.cols, col),
     rows |-> [i \in 1..Len(df.rows) |->
                 [c \in DOMAIN df.rows[i] \cup {col} |->
                    IF c = col THEN values[i] ELSE df.rows[i][c]]]]

\* df.drop(columns=names, errors="ignore")
df_drop(df, names) ==
    LET kept == SelectSeq(df.cols, LAMBDA c : \A k \in 1..Len(names) : names[k] # c)
    IN  [cols |-> kept,
         rows |-> [i \in 1..Len(df.rows) |->
                     [c \in {kept[k] : k \in 1..Len(kept)} |-> df.rows[i][c]]]]

\* row.to_dict() of row i: the cells in column order
row_to_dict(df, i) == [k \in 1..Len(df.cols) |-> <<df.cols[k], df.rows[i][df.cols[k]]>>]

\* Series.dropna().unique(): the values present, each once, in first-seen order
RECURSIVE dropna_unique(_, _)
dropna_unique(values, seen) ==
    IF values = <<>> THEN <<>>
    ELSE IF pd_isna(values[1]) \/ values[1] \in seen
         THEN dropna_unique(Tail(values), seen)
         ELSE <<values[1]>> \o dropna_unique(Tail(values), seen \cup {values[1]})

\* truth value of a str, a dict or None: None and the empty one are false
Truthy(x) == x # None /\ x # <<>>

-----------------------------------------------------------------------------
(* _create_ordered_merged_player_entry *)

\* the loop over player_data.items() that appends the keys not yet placed
RECURSIVE AppendRemaining(_, _)
AppendRemaining(ordered_entry, items) ==
    IF items = <<>> THEN ordered_entry
    ELSE IF DictHas(ordered_entry, items[1][1])
         THEN AppendRemaining(ordered_entry, Tail(items))
         ELSE AppendRemaining(Append(ordered_entry, items[1]), Tail(items))

\* a copy of the record that keeps the internal field
DropInternalField_Keeps(player_data) == player_data

\* del player_data["Normalized_Name"], guarded by the membership test
DropInternalField(player_data) ==
    IF DictHas(player_data, "Normalized_Name")
    THEN DictDel(player_data, "Normalized_Name")
    ELSE player_data

\* the dict passed in after the call, had the function worked on it directly
ArgumentAfterEntry_NoCopy(br_player_info, espn_row_data) ==
    DictSet(DictSet(DropInternalField(br_player_info), "ESPN_Rank", espn_row_data["RK"]),
            "ESPN_Points", espn_row_data["PTS"])

\* line 209: player_data = br_player_info.copy(); lines 210-214 change the
\* copy, so the dict passed in is after the call what it was before
ArgumentAfterEntry(br_player_info, espn_row_data) == br_player_info

create_ordered_merged_player_entry(br_player_info, espn_row_data) ==
    LET p1 == DropInternalField(br_player_info)
        p2 == DictSet(p1, "ESPN_Rank", espn_row_data["RK"])
        player_data == DictSet(p2, "ESPN_Points", espn_row_data["PTS"])
        first3 == << <<"ESPN_Rank", DictGet(player_data, "ESPN_Rank")>>,
                     <<"Name", DictGet(player_data, "Name")>>,
                     <<"ESPN_Points", DictGet(player_data, "ESPN_Points")>> >>
    IN  AppendRemaining(first3, player_data)

-----------------------------------------------------------------------------
(* The datasets the merge is run on *)

\* primary rows, over every column a layout below may carry
BR_LeBron ==
    ("Name" :> <<"L","e","B","r","o","n"," ","J","a","m","e","s">> @@
     "Pronunciation" :> NaN @@
     "Position" :> <<"F">> @@
     "Height_Imperial" :> <<"6","-","S","e","p">> @@
     "Born_Date" :> <<"D","e","c","e","m","b","e","r"," ","3","0",","," ","1","9","8","4">> @@
     "Born_Location" :> <<"i","n",NBSP,"A","k","r","o","n",","," ","O","h","i","o">> @@
     "College" :> NaN @@
     "NBA_Debut" :> <<"1","0","/","2","9","/","2","0","0","3">> @@
     "URL" :> <<"u","1">> @@
     "ESPN_Points" :> <<"0">>)

BR_LebronJr ==
    ("Name" :> <<"L","e","b","r","o","n"," ","J","a","m","e","s"," ","J","r",".">> @@
     "Pronunciation" :> <<"l","u","h">> @@
     "Position" :> <<"G">> @@
     "Height_Imperial" :> <<"6","-","6">> @@
     "Born_Date" :> <<"2","0","0","4","-","1","0","-","0","6">> @@
     "Born_Location" :> <<"C","l","e","v","e","l","a","n","d",",","O","h","i","o">> @@
     "College" :> <<"U","S","C">> @@
     "NBA_Debut" :> <<"O","c","t"," ","2","2",","," ","2","0","2","4">> @@
     "URL" :> <<"u","2">> @@
     "ESPN_Points" :> <<"7">>)

BR_NoName ==
    ("Name" :> NaN @@
     "Pronunciation" :> NaN @@
     "Position" :> <<"C">> @@
     "Height_Imperial" :> NaN @@
     "Born_Date" :> NaN @@
     "Born_Location" :> NaN @@
     "College" :> NaN @@
     "NBA_Debut" :> NaN @@
     "URL" :> <<"u","3">> @@
     "ESPN_Points" :> NaN)

BRRowPool == {BR_LeBron, BR_LebronJr, BR_NoName}

\* secondary rows: rank, display name, metric
ESPN_LeBron ==
    ("RK" :> <<"1">> @@
     "Player" :> <<"L","E","B","R","O","N"," ","J","A","M","E","S">> @@
     "PTS" :> <<"3","8","6","5","2">>)

ESPN_James ==
    ("RK" :> <<"2">> @@
     "Player" :> <<"J","a","m","e","s">> @@
     "PTS" :> <<"1","0","0">>)

ESPN_Absent ==
    ("RK" :> NaN @@
     "Player" :> NaN @@
     "PTS" :> NaN)

ESPN_Suffix ==
    ("RK" :> <<"3">> @@
     "Player" :> <<"J","r",".">> @@
     "PTS" :> NaN)

ESPNRowPool == {ESPN_LeBron, ESPN_James, ESPN_Absent, ESPN_Suffix}

\* Column layouts of the primary CSV: a display name and one descriptive
\* field; the scraper's layout (in part); a layout led by other columns
\* than Name, one of them named like an output field.
LayoutNameOnly == <<"Name", "Position">>

LayoutScraper ==
    <<"Name", "Pronunciation", "Position", "Height_Imperial", "Born_Date",
      "Born_Location", "College", "NBA_Debut", "URL">>

LayoutReordered ==
    <<"ESPN_Points", "Position", "Name", "Height_Imperial", "Born_Date",
      "Born_Location", "NBA_Debut">>

BRLayouts == {LayoutNameOnly, LayoutScraper, LayoutReordered}

ESPNLayout == <<"RK", "Player", "PTS">>

MakeFrame(layout, rows) ==
    [cols |-> layout,
     rows |-> [i \in 1..Len(rows) |->
                 [c \in {layout[k] : k \in 1..Len(layout)} |-> rows[i][c]]]]

BRFiles ==
    {CsvFile(MakeFrame(l, rs)) : l \in BRLayouts, rs \in SeqsUpTo(BRRowPool, MaxBRRows)}

ESPNFiles ==
    {CsvFile(MakeFrame(ESPNLayout, rs)) : rs \in SeqsUpTo(ESPNRowPool, MaxESPNRows)}

-----------------------------------------------------------------------------
(* clean_and_merge_player_data *)

\* the call starts: the two paths name files, the locals are not yet bound
MergeInit(br_files, espn_files) ==
    /\ pc = "load"
    /\ br_file \in br_files
    /\ espn_file \in espn_files
    /\ br_df = NoFrame /\ espn_df = NoFrame
    /\ br_i = 0 /\ br_lookup = <<>>
    /\ br_names_for_fuzzy_prepped = <<>>
    /\ espn_i = 0
    /\ merged_data = <<>> /\ unmatched_players = <<>>
    /\ exact_matches = 0 /\ fuzzy_matches = 0
    /\ ret = None /\ error = None /\ log = <<>>

Init ==
    /\ MergeInit(BRFiles \cup {Unreadable}, ESPNFiles \cup {Unreadable})
    /\ NormIdle /\ FuzzyIdle /\ FormatIdle /\ CallerIdle /\ JobIdle

\* a load whose try covers the first read only: a failure of the second read
\* leaves the function as an exception
Load_SecondReadUnguarded ==
    /\ pc = "load"
    /\ IF br_file.readable /\ espn_file.readable
       THEN /\ br_df' = br_file.frame
            /\ espn_df' = espn_file.frame
            /\ pc' = "format"
            /\ UNCHANGED <<ret, error>>
       ELSE IF ~br_file.readable
            THEN /\ ret' = << <<>>, <<>>, <<>> >>
                 /\ pc' = "returned"
                 /\ UNCHANGED <<br_df, espn_df, error>>
            ELSE /\ error' = <<"Exception", "espn_csv_path">>
                 /\ pc' = "raised"
                 /\ br_df' = br_file.frame
                 /\ UNCHANGED <<espn_df, ret>>
    /\ UNCHANGED <<br_file, espn_file, br_i, br_lookup, br_names_for_fuzzy_prepped,
                   espn_i, merged_data, unmatched_players, exact_matches,
                   fuzzy_matches, log, nm_vars, fz_vars, fm_vars, job_vars, cl_vars>>

\* lines 229-236: both files are read inside one try; any exception of
\* either read returns the three empty values
Load ==
    /\ pc = "load"
    /\ IF br_file.readable /\ espn_file.readable
       THEN /\ br_df' = br_file.frame
            /\ espn_df' = espn_file.frame
            /\ pc' = "format"
            /\ UNCHANGED ret
       ELSE /\ ret' = << <<>>, <<>>, <<>> >>
            /\ pc' = "returned"
            /\ UNCHANGED <<br_df, espn_df>>
    /\ UNCHANGED <<br_file, espn_file, br_i, br_lookup, br_names_for_fuzzy_prepped,
                   espn_i, merged_data, unmatched_players, exact_matches,
                   fuzzy_matches, error, log, nm_vars, fz_vars, fm_vars, job_vars, cl_vars>>

\* the columns lines 239-249 index without a guard, in the order they do
FormattedColumns == <<"Born_Location", "Born_Date", "NBA_Debut", "Height_Imperial", "Name">>

\* line 246
columns_to_remove_br == <<"Pronunciation", "High School", "College", "Draft", "URL">>

\* the columns of names that df lacks, in the order of names
MissingColumns(df, names) == SelectSeq(names, LAMBDA c : ~df_has(df, c))

KeyError(col) == <<"KeyError", col>>

\* line 239
FormatBornLocation(df, cells) ==
    df_set(df, "Born_Location",
           [i \in 1..Len(cells) |-> format_born_location(cells[i])])

\* lines 240 and 241
FormatDate(df, col, cells) ==
    df_set(df, col, [i \in 1..Len(cells) |-> standardize_date_format(cells[i])])

\* lines 242-244
FormatHeight(df, cells) ==
    df_set(df, "Height_Imperial",
           [i \in 1..Len(cells) |-> standardize_height_imperial(cells[i])])

\* line 249
AddNormalizedName(df, cells) ==
    df_set(df, "Normalized_Name", [i \in 1..Len(cells) |-> normalize_name(cells[i])])

\* lines 239-249 on frames that carry the columns
FormatFrame(df) ==
    LET d1 == FormatBornLocation(df, df_column(df, "Born_Location"))
        d2 == FormatDate(d1, "Born_Date", df_column(df, "Born_Date"))
        d3 == FormatDate(d2, "NBA_Debut", df_column(df, "NBA_Debut"))
        d4 == FormatHeight(d3, df_column(df, "Height_Imperial"))
        d5 == df_drop(d4, columns_to_remove_br)
    IN  AddNormalizedName(d5, df_column(df, "Name"))

\* lines 238-249: br_df[col] raises KeyError for a column the frame lacks,
\* outside any try
FormatBR ==
    /\ pc = "format"
    /\ LET missing == MissingColumns(br_df, FormattedColumns)
       IN  IF missing # <<>>
           THEN /\ error' = KeyError(missing[1])
                /\ pc' = "raised"
                /\ UNCHANGED br_df
           ELSE /\ br_df' = FormatFrame(br_df)
                /\ pc' = "lookup"
                /\ UNCHANGED error
    /\ UNCHANGED <<br_file, espn_file, espn_df, br_i, br_lookup,
                   br_names_for_fuzzy_prepped, espn_i, merged_data,
                   unmatched_players, exact_matches, fuzzy_matches, ret, log,
                   nm_vars, fz_vars, fm_vars, job_vars, cl_vars>>

\* an index loop body without the  not in br_lookup  test: the last row wins
LookupInsert_LastSeen(lookup, df, i) ==
    LET normalized == df.rows[i]["Normalized_Name"]
    IN  IF normalized # <<>>
        THEN DictSet(lookup, normalized, row_to_dict(df, i))
        ELSE lookup

\* an index keyed by the lower-cased display name instead of the canonical key
LookupInsert_RawKey(lookup, df, i) ==
    LET normalized == IF pd_isna(df.rows[i]["Name"]) THEN <<>>
                      ELSE str_lower(df.rows[i]["Name"])
    IN  IF normalized # <<>> /\ ~DictHas(lookup, normalized)
        THEN DictSet(lookup, normalized, row_to_dict(df, i))
        ELSE lookup

\* lines 254-257, the body of the index loop for one row
LookupInsert(lookup, df, i) ==
    LET normalized == df.rows[i]["Normalized_Name"]
    IN  IF normalized # <<>> /\ ~DictHas(lookup, normalized)
        THEN DictSet(lookup, normalized, row_to_dict(df, i))
        ELSE lookup

\* lines 252-257: one iteration of  for _, row in br_df.iterrows()
BuildLookupRow ==
    /\ pc = "lookup"
    /\ br_i < Len(br_df.rows)
    /\ br_i' = br_i + 1
    /\ br_lookup' = LookupInsert(br_lookup, br_df, br_i + 1)
    /\ UNCHANGED <<pc, br_file, espn_file, br_df, espn_df,
                   br_names_for_fuzzy_prepped, espn_i, merged_data,
                   unmatched_players, exact_matches, fuzzy_matches, ret, error,
                   log, nm_vars, fz_vars, fm_vars, job_vars, cl_vars>>

\* lines 264-268
PrepFuzzyList(df) ==
    LET unique_br_names == dropna_unique([i \in 1..Len(df.rows) |-> df.rows[i]["Name"]], {})
        pairs == [k \in 1..Len(unique_br_names) |->
                    LET parts == str_split(normalize_name(unique_br_names[k]))
                    IN  <<unique_br_names[k], {parts[j] : j \in 1..Len(parts)}>>]
    IN  SelectSeq(pairs, LAMBDA pr : normalize_name(pr[1]) # <<>>)

\* Series.apply(normalize_name)
NormalizedNames(names) == [i \in 1..Len(names) |-> normalize_name(names[i])]

\* a list kept from one call to the next
NewList_Shared(previous) == previous

\* lines 273-274: merged_data = [], unmatched_players = []
NewList(previous) == <<>>

\* lines 258-276: the index loop is over; the fuzzy list is prepared, the
\* secondary names are normalized and the outputs start empty
PrepareMerge ==
    /\ pc = "lookup"
    /\ br_i = Len(br_df.rows)
    /\ br_names_for_fuzzy_prepped' = PrepFuzzyList(br_df)
    /\ IF df_has(espn_df, "Player")
       THEN /\ espn_df' = df_set(espn_df, "Normalized_ESPN_Name",
                                  NormalizedNames(df_column(espn_df, "Player")))
            /\ pc' = "merge"
            /\ UNCHANGED error
       ELSE /\ error' = KeyError("Player")
            /\ pc' = "raised"
            /\ UNCHANGED espn_df
    /\ merged_data' = NewList(merged_data) /\ unmatched_players' = NewList(unmatched_players)
    /\ exact_matches' = 0 /\ fuzzy_matches' = 0
    /\ UNCHANGED <<br_file, espn_file, br_df, br_i, br_lookup, espn_i, ret, log,
                   nm_vars, fz_vars, fm_vars, job_vars, cl_vars>>

\* What the loop body decides for one secondary row: the primary record
\* found (None: no match), by which tier, whether fuzzy_name_match was called,
\* and the index key the record was read under.
Decision(info, kind, fuzzy_called, key) ==
    [br_player_info |-> info, kind |-> kind, fuzzy_called |-> fuzzy_called, key |-> key]

\* lines 292-294: the index is read under the re-derived key of the fuzzy match
FuzzyLookup(lookup, normalized_fuzzy_br_name) ==
    IF DictHas(lookup, normalized_fuzzy_br_name)
    THEN Decision(DictGet(lookup, normalized_fuzzy_br_name), "fuzzy", TRUE,
                  normalized_fuzzy_br_name)
    ELSE Decision(None, "none", TRUE, None)

\* lines 289-294, given what fuzzy_name_match returned
FuzzyBranch(lookup, fuzzy_match_original_br_name) ==
    IF Truthy(fuzzy_match_original_br_name)
    THEN FuzzyLookup(lookup, normalize_name(fuzzy_match_original_br_name))
    ELSE Decision(None, "none", TRUE, None)

\* a match decision that asks fuzzy_name_match first and reads the index under
\* the row's own key only when that found nothing
MatchRow_FuzzyFirst(espn_row, lookup, prepped) ==
    IF Truthy(fuzzy_name_match(espn_row["Player"], prepped, DefaultThresholdTenths))
    THEN FuzzyBranch(lookup,
                     fuzzy_name_match(espn_row["Player"], prepped, DefaultThresholdTenths))
    ELSE IF espn_row["Normalized_ESPN_Name"] # <<>>
            /\ DictHas(lookup, espn_row["Normalized_ESPN_Name"])
         THEN Decision(DictGet(lookup, espn_row["Normalized_ESPN_Name"]), "exact", TRUE,
                       espn_row["Normalized_ESPN_Name"])
         ELSE Decision(None, "none", TRUE, None)

\* lines 279-294: the match decision for one secondary row
MatchRow(espn_row, lookup, prepped) ==
    IF espn_row["Normalized_ESPN_Name"] # <<>>
       /\ DictHas(lookup, espn_row["Normalized_ESPN_Name"])
    THEN Decision(DictGet(lookup, espn_row["Normalized_ESPN_Name"]), "exact", FALSE,
                  espn_row["Normalized_ESPN_Name"])
    ELSE FuzzyBranch(lookup,
                     fuzzy_name_match(espn_row["Player"], prepped, DefaultThresholdTenths))

\* an unmatched entry that records the display name where the key belongs
UnmatchedEntry_NameAsKey(espn_row) ==
    << <<"ESPN_Player", espn_row["Player"]>>,
       <<"ESPN_Rank", espn_row["RK"]>>,
       <<"ESPN_Points", espn_row["PTS"]>>,
       <<"Normalized_Name", espn_row["Player"]>> >>

\* lines 302-309
UnmatchedEntry(espn_row) ==
    << <<"ESPN_Player", espn_row["Player"]>>,
       <<"ESPN_Rank", espn_row["RK"]>>,
       <<"ESPN_Points", espn_row["PTS"]>>,
       <<"Normalized_Name", espn_row["Normalized_ESPN_Name"]>> >>

\* an insertion at the front of the list
list_append_Front(list, entry) == <<entry>> \o list

\* lines 300, 302: merged_data.append(...), unmatched_players.append(...)
list_append(list, entry) == Append(list, entry)

\* a loop body that takes the entry it merged out of the index
LookupAfterRow_Consumes(lookup, m, espn_row) ==
    IF Truthy(m.br_player_info) THEN DictDel(lookup, m.key) ELSE lookup

\* The index after the loop body has run for one row: the entry read, if
\* any, is the dict create_ordered_merged_player_entry was called on; every
\* other entry is not touched.
LookupAfterRow(lookup, m, espn_row) ==
    IF Truthy(m.br_player_info)
    THEN DictSet(lookup, m.key, ArgumentAfterEntry(m.br_player_info, espn_row))
    ELSE lookup

\* lines 278-309: one iteration of  for _, espn_row in espn_df.iterrows()
ProcessRow ==
    /\ pc = "merge"
    /\ caller_pc # "workers"
    /\ espn_i < Len(espn_df.rows)
    /\ \E espn_row \in {espn_df.rows[espn_i + 1]} :
       \E m \in {MatchRow(espn_row, br_lookup, br_names_for_fuzzy_prepped)} :
           /\ exact_matches' = exact_matches + (IF m.kind = "exact" THEN 1 ELSE 0)
           /\ fuzzy_matches' = fuzzy_matches + (IF m.kind = "fuzzy" THEN 1 ELSE 0)
           /\ IF Truthy(m.br_player_info)
              THEN /\ merged_data' =
                        list_append(merged_data,
                                    create_ordered_merged_player_entry(m.br_player_info, espn_row))
                   /\ UNCHANGED unmatched_players
              ELSE /\ unmatched_players' = list_append(unmatched_players, UnmatchedEntry(espn_row))
                   /\ UNCHANGED merged_data
           /\ br_lookup' = LookupAfterRow(br_lookup, m, espn_row)
           /\ log' = Append(log, [row |-> espn_i + 1, kind |-> m.kind,
                                  fuzzy_called |-> m.fuzzy_called, key |-> m.key,
                                  merged |-> Truthy(m.br_player_info)])
    /\ espn_i' = espn_i + 1
    /\ UNCHANGED <<pc, br_file, espn_file, br_df, espn_df, br_i,
                   br_names_for_fuzzy_prepped, ret, error, nm_vars, fz_vars, fm_vars, job_vars, cl_vars>>

\* the division without the test of line 319
MatchPercentage_Unguarded(n_merged, n_espn) == <<n_merged * 100, n_espn>>

\* lines 319-322: the percentage as the fraction <<numerator, denominator>>
MatchPercentage(n_merged, n_espn) ==
    IF n_espn > 0 THEN <<n_merged * 100, n_espn>> ELSE <<0, 1>>

\* statistics whose total counts the exact matches only
MakeStats_TotalIsExact(espn, br, merged, unmatched, exact, fuzzy) ==
    << <<"total_espn_players", Len(espn.rows)>>,
       <<"total_br_players", Len(br.rows)>>,
       <<"exact_matches", exact>>,
       <<"fuzzy_matches", fuzzy>>,
       <<"total_matches", exact>>,
       <<"unmatched", Len(unmatched)>>,
       <<"match_percentage", MatchPercentage(Len(merged), Len(espn.rows))>> >>

\* lines 311-322
MakeStats(espn, br, merged, unmatched, exact, fuzzy) ==
    << <<"total_espn_players", Len(espn.rows)>>,
       <<"total_br_players", Len(br.rows)>>,
       <<"exact_matches", exact>>,
       <<"fuzzy_matches", fuzzy>>,
       <<"total_matches", Len(merged)>>,
       <<"unmatched", Len(unmatched)>>,
       <<"match_percentage", MatchPercentage(Len(merged), Len(espn.rows))>> >>

\* lines 311-324: the loop is over; the stats are assembled and returned
Finish ==
    /\ pc = "merge"
    /\ espn_i = Len(espn_df.rows)
    /\ ret' = <<merged_data, unmatched_players,
                MakeStats(espn_df, br_df, merged_data, unmatched_players,
                          exact_matches, fuzzy_matches)>>
    /\ pc' = "returned"
    /\ UNCHANGED <<br_file, espn_file, br_df, espn_df, br_i, br_lookup,
                   br_names_for_fuzzy_prepped, espn_i, merged_data,
                   unmatched_players, exact_matches, fuzzy_matches, error, log,
                   nm_vars, fz_vars, fm_vars, job_vars, cl_vars>>

Next == Load \/ FormatBR \/ BuildLookupRow \/ PrepareMerge \/ ProcessRow \/ Finish

Spec == Init /\ [][Next]_vars

\* how the call ended, and the three values it returned
Returned == pc = "returned"

Raised == pc = "raised"

Loaded == br_file.readable /\ espn_file.readable

ReturnedMerged == ret[1]

ReturnedUnmatched == ret[2]

ReturnedStats == ret[3]

-----------------------------------------------------------------------------
(* save_merged_data *)

\* pd.DataFrame(list of dicts): the columns are the keys in first-seen order
RECURSIVE FirstSeenKeys(_, _)
FirstSeenKeys(records, seen) ==
    IF records = <<>> THEN seen
    ELSE FirstSeenKeys(Tail(records),
                       seen \o SelectSeq(DictKeys(records[1]),
                                         LAMBDA c : \A k \in 1..Len(seen) : seen[k] # c))

\* pd.DataFrame(merged_data_list): a key a record lacks gives NaN
DataFrameOf(records) ==
    [cols |-> FirstSeenKeys(records, <<>>),
     rows |-> [i \in 1..Len(records) |->
                 [c \in {FirstSeenKeys(records, <<>>)[k] : k \in 1..Len(FirstSeenKeys(records, <<>>))} |->
                    IF DictHas(records[i], c) THEN DictGet(records[i], c) ELSE NaN]]]

\* line 370
cols_ordered == <<"ESPN_Rank", "Name", "ESPN_Points">>

\* lines 374-378: df[final_columns]
ReorderedFrame(df) ==
    [cols |-> cols_ordered \o
                 SelectSeq(df.cols, LAMBDA c : \A k \in 1..Len(cols_ordered) : cols_ordered[k] # c),
     rows |-> df.rows]

\* what df.to_csv(output_path) may do: write the file, or raise
IoOutcomes == {"written", "refused"}

\* The call as [ret, file, error]: the value returned (Unset when an
\* exception leaves the call), the file at output_path afterwards, and that
\* exception or None.  df[final_columns] is outside the try and raises
\* KeyError for a leading column no record has; an exception of to_csv is
\* caught and leaves the file as it was.
save_merged_data(merged_data_list, file, io) ==
    IF ~Truthy(merged_data_list)
    THEN [ret |-> FALSE, file |-> file, error |-> None]
    ELSE IF MissingColumns(DataFrameOf(merged_data_list), cols_ordered) # <<>>
    THEN [ret |-> Unset, file |-> file,
          error |-> KeyError(MissingColumns(DataFrameOf(merged_data_list), cols_ordered)[1])]
    ELSE IF io = "written"
    THEN [ret |-> TRUE, file |-> WrittenFile(ReorderedFrame(DataFrameOf(merged_data_list))),
          error |-> None]
    ELSE [ret |-> FALSE, file |-> file, error |-> None]

-----------------------------------------------------------------------------
(* print_merge_results *)

\* line 331-337: the stats keys the summary reads, in the order it reads them
PrintedStats ==
    <<"total_espn_players", "total_br_players", "exact_matches", "fuzzy_matches",
      "total_matches", "unmatched", "match_percentage">>

\* pandas reads a column of integers with an absent cell as float64: every
\* rank of the frame is then a float
RanksAreInt(espn) == \A i \in 1..Len(espn.rows) : ~pd_isna(espn.rows[i]["RK"])

\* The exception that leaves print_merge_results, or None: KeyError for the
\* first stats key absent; ValueError of the format code 2d (lines 346, 355)
\* when a player is printed and the ranks are floats.
print_merge_results(merged, unmatched, stats, ranks_are_int) ==
    IF SelectSeq(PrintedStats, LAMBDA k : ~DictHas(stats, k)) # <<>>
    THEN KeyError(SelectSeq(PrintedStats, LAMBDA k : ~DictHas(stats, k))[1])
    ELSE IF (Truthy(merged) \/ Truthy(unmatched)) /\ ~ranks_are_int
    THEN <<"ValueError", "2d">>
    ELSE None

-----------------------------------------------------------------------------
(* The callers: pipeline.cleaned_merged_data, cleaning.main, and a direct
   call of save_merged_data *)

MaxCallerRows == 1

MaxSavedRecords == 2

PyTrue == <<"True">>

PyFalse == <<"False">>

OutputPath == <<"output_path">>

NoDataMerged == <<"Exception", "No data was successfully merged">>

SaveFailed == <<"Exception", "Failed to save merged data to CSV">>

CallerBRFiles ==
    {CsvFile(MakeFrame(l, rs)) : l \in BRLayouts, rs \in SeqsUpTo(BRRowPool, MaxCallerRows)}

CallerESPNFiles ==
    {CsvFile(MakeFrame(ESPNLayout, rs)) : rs \in SeqsUpTo(ESPNRowPool, MaxCallerRows)}

\* records handed to save_merged_data directly: two merged records with
\* different descriptive fields, and one without the leading column Name
SavedRecordPool ==
    { << <<"ESPN_Rank", <<"1">>>>, <<"Name", <<"A">>>>, <<"ESPN_Points", <<"9">>>>,
         <<"Position", <<"F">>>> >>,
      << <<"ESPN_Rank", <<"2">>>>, <<"Name", <<"B">>>>, <<"ESPN_Points", NaN>>,
         <<"College", <<"U">>>> >>,
      << <<"ESPN_Rank", <<"3">>>>, <<"ESPN_Points", <<"7">>>> >> }

SavedLists == SeqsUpTo(SavedRecordPool, MaxSavedRecords)

\* the three entry points; the merge call of a stage or of main has started,
\* a direct save has its argument
CallersInit ==
    /\ NormIdle /\ FuzzyIdle /\ FormatIdle /\ JobIdle
    /\ caller_pc = "called" /\ caller_ret = Unset /\ caller_error = None
    /\ save_ret = Unset /\ out_file = NoFile /\ first_ret = Unset /\ w_out = <<>>
    /\ \/ /\ caller \in {"stage", "main"}
          /\ save_arg = Unset
          /\ MergeInit(CallerBRFiles \cup {Unreadable}, CallerESPNFiles \cup {Unreadable})
       \/ /\ caller = "save"
          /\ save_arg \in SavedLists
          /\ MergeIdle

\* an exception of clean_and_merge_player_data leaves the caller: neither
\* caller has a try around the call
Propagate ==
    /\ caller \in {"stage", "main"} /\ caller_pc = "called" /\ Raised
    /\ caller_error' = error
    /\ caller_pc' = "raised"
    /\ UNCHANGED <<caller, caller_ret, save_arg, save_ret, out_file, first_ret, w_out,
                   nm_vars, fz_vars, mg_vars, fm_vars, job_vars>>

StageRaisesOnEmpty_Never(merged) == FALSE

\* pipeline.py line 147: if not merged_data
StageRaisesOnEmpty(merged) == ~Truthy(merged)

StageCheck ==
    /\ caller = "stage" /\ caller_pc = "called" /\ Returned
    /\ IF StageRaisesOnEmpty(ReturnedMerged)
       THEN caller_error' = NoDataMerged /\ caller_pc' = "raised"
       ELSE caller_pc' = "save" /\ UNCHANGED caller_error
    /\ UNCHANGED <<caller, caller_ret, save_arg, save_ret, out_file, first_ret, w_out,
                   nm_vars, fz_vars, mg_vars, fm_vars, job_vars>>

\* the effect of one call of save_merged_data on save_arg, save_ret, out_file
SaveEffect(list, outcome) ==
    /\ save_arg' = list
    /\ out_file' = outcome.file
    /\ save_ret' = IF outcome.error # None THEN Unset
                   ELSE IF outcome.ret THEN PyTrue ELSE PyFalse

StageSave ==
    /\ caller = "stage" /\ caller_pc = "save"
    /\ \E io \in IoOutcomes :
         \E outcome \in {save_merged_data(ReturnedMerged, out_file, io)} :
           /\ SaveEffect(ReturnedMerged, outcome)
           /\ IF outcome.error # None
              THEN caller_error' = outcome.error /\ caller_pc' = "raised"
              ELSE IF ~outcome.ret
              THEN caller_error' = SaveFailed /\ caller_pc' = "raised"
              ELSE caller_pc' = "metadata" /\ UNCHANGED caller_error
    /\ UNCHANGED <<caller, caller_ret, first_ret, w_out,
                   nm_vars, fz_vars, mg_vars, fm_vars, job_vars>>

\* pipeline.py lines 157-175: the stats keys and the file size are read
StageMetadataKeys == <<"match_percentage", "exact_matches", "fuzzy_matches">>

StageFinish ==
    /\ caller = "stage" /\ caller_pc = "metadata"
    /\ IF SelectSeq(StageMetadataKeys, LAMBDA k : ~DictHas(ReturnedStats, k)) # <<>>
       THEN /\ caller_error' =
                 KeyError(SelectSeq(StageMetadataKeys, LAMBDA k : ~DictHas(ReturnedStats, k))[1])
            /\ caller_pc' = "raised"
            /\ UNCHANGED caller_ret
       ELSE IF ~out_file.exists
       THEN /\ caller_error' = <<"FileNotFoundError", "output_path">>
            /\ caller_pc' = "raised"
            /\ UNCHANGED caller_ret
       ELSE /\ caller_ret' = OutputPath
            /\ caller_pc' = "done"
            /\ UNCHANGED caller_error
    /\ UNCHANGED <<caller, save_arg, save_ret, out_file, first_ret, w_out,
                   nm_vars, fz_vars, mg_vars, fm_vars, job_vars>>

\* cleaning.py line 399: the summary is printed whatever the call returned
PrintIsCalled(merged, unmatched, stats) == TRUE

MainPrint ==
    /\ caller = "main" /\ caller_pc = "called" /\ Returned
    /\ \E e \in {IF PrintIsCalled(ReturnedMerged, ReturnedUnmatched, ReturnedStats)
                 THEN print_merge_results(ReturnedMerged, ReturnedUnmatched,
                                          ReturnedStats, RanksAreInt(espn_df))
                 ELSE None} :
         IF e # None
         THEN caller_error' = e /\ caller_pc' = "raised"
         ELSE caller_pc' = "save" /\ UNCHANGED caller_error
    /\ UNCHANGED <<caller, caller_ret, save_arg, save_ret, out_file, first_ret, w_out,
                   nm_vars, fz_vars, mg_vars, fm_vars, job_vars>>

\* cleaning.py lines 401-418: saved when something was merged; the sample is
\* printed; the triple is returned
MainSave ==
    /\ caller = "main" /\ caller_pc = "save"
    /\ IF Truthy(ReturnedMerged)
       THEN \E io \in IoOutcomes :
              \E outcome \in {save_merged_data(ReturnedMerged, out_file, io)} :
                /\ SaveEffect(ReturnedMerged, outcome)
                /\ IF outcome.error # None
                   THEN /\ caller_error' = outcome.error /\ caller_pc' = "raised"
                        /\ UNCHANGED caller_ret
                   ELSE /\ caller_ret' = ret /\ caller_pc' = "done"
                        /\ UNCHANGED caller_error
       ELSE /\ caller_ret' = ret /\ caller_pc' = "done"
            /\ UNCHANGED <<caller_error, save_arg, save_ret, out_file>>
    /\ UNCHANGED <<caller, first_ret, w_out, nm_vars, fz_vars, mg_vars, fm_vars, job_vars>>

\* save_merged_data called on a list of the caller's own
SaveCall ==
    /\ caller = "save" /\ caller_pc = "called"
    /\ \E io \in IoOutcomes :
         \E outcome \in {save_merged_data(save_arg, out_file, io)} :
           /\ SaveEffect(save_arg, outcome)
           /\ IF outcome.error # None
              THEN caller_error' = outcome.error /\ caller_pc' = "raised"
              ELSE caller_pc' = "done" /\ UNCHANGED caller_error
    /\ UNCHANGED <<caller, caller_ret, first_ret, w_out,
                   nm_vars, fz_vars, mg_vars, fm_vars, job_vars>>

CallersNext ==
    \/ Load \/ FormatBR \/ BuildLookupRow \/ PrepareMerge \/ ProcessRow \/ Finish
    \/ Propagate \/ StageCheck \/ StageSave \/ StageFinish
    \/ MainPrint \/ MainSave \/ SaveCall

SpecCallers == CallersInit /\ [][CallersNext]_vars

-----------------------------------------------------------------------------
(* clean_and_merge_player_data called twice on the same two files *)

TwiceInit ==
    /\ NormIdle /\ FuzzyIdle /\ FormatIdle /\ JobIdle
    /\ caller = "twice" /\ caller_pc = "called"
    /\ caller_ret = Unset /\ caller_error = None
    /\ save_arg = Unset /\ save_ret = Unset /\ out_file = NoFile
    /\ first_ret = Unset /\ w_out = <<>>
    /\ MergeInit(CallerBRFiles \cup {Unreadable}, ESPNFiles \cup {Unreadable})

\* The first call has ended; what it returned or raised is kept and the
\* second call starts on the same paths.  The call reads the files and
\* writes nothing, so the files are as they were; the four accumulators are
\* unbound until lines 273-276 bind them.
SecondCall ==
    /\ caller = "twice" /\ caller_pc = "called"
    /\ Returned \/ Raised
    /\ first_ret' = <<ret, error>>
    /\ caller_pc' = "second"
    /\ pc' = "load"
    /\ br_df' = NoFrame /\ espn_df' = NoFrame
    /\ br_i' = 0 /\ br_lookup' = <<>>
    /\ br_names_for_fuzzy_prepped' = <<>>
    /\ espn_i' = 0
    /\ ret' = None /\ error' = None /\ log' = <<>>
    /\ UNCHANGED <<br_file, espn_file, merged_data, unmatched_players,
                   exact_matches, fuzzy_matches,
                   caller, caller_ret, caller_error, save_arg, save_ret, out_file, w_out,
                   nm_vars, fz_vars, fm_vars, job_vars>>

TwiceNext ==
    \/ Load \/ FormatBR \/ BuildLookupRow \/ PrepareMerge \/ ProcessRow \/ Finish
    \/ SecondCall

SpecTwice == TwiceInit /\ [][TwiceNext]_vars

-----------------------------------------------------------------------------
(* standardize_date_format applied to one cell *)

MaxDay == 12

DateYears == {<<"1","9","8","4">>, <<"2","0","0","3">>}

MonthNamesLower ==
    << <<"j","a","n","u","a","r","y">>,
       <<"f","e","b","r","u","a","r","y">>,
       <<"m","a","r","c","h">>,
       <<"a","p","r","i","l">>,
       <<"m","a","y">>,
       <<"j","u","n","e">>,
       <<"j","u","l","y">>,
       <<"a","u","g","u","s","t">>,
       <<"s","e","p","t","e","m","b","e","r">>,
       <<"o","c","t","o","b","e","r">>,
       <<"n","o","v","e","m","b","e","r">>,
       <<"d","e","c","e","m","b","e","r">> >>

MonthAbbr(n) == SubSeq(MonthNamesLower[n], 1, 3)

str_upper(s) == [i \in 1..Len(s) |-> ToUpper(s[i])]

\* a month word as written: lower case, capitalized, upper case
CaseForms(w) == {w, str_capitalize(w), str_upper(w)}

MonthWords(n) == CaseForms(MonthNamesLower[n]) \cup CaseForms(MonthAbbr(n))

DigitChar(k) == <<"0","1","2","3","4","5","6","7","8","9">>[k + 1]

\* the decimal numeral of n < 100, and the two-digit one
Dec(n) == IF n < 10 THEN <<DigitChar(n)>> ELSE <<DigitChar(n \div 10), DigitChar(n % 10)>>

Dec2(n) == <<DigitChar(n \div 10), DigitChar(n % 10)>>

IsoDate(y, n, d) == y \o <<"-">> \o Dec2(n) \o <<"-">> \o Dec2(d)

DateCell(text, shape, expected) == [text |-> text, shape |-> shape, expected |-> expected]

\* "Month Day, Year" for each spelling of each month
MonthDayYearCells ==
    UNION {{DateCell(m \o <<" ">> \o Dec(d) \o <<",", " ">> \o y, "month_day_year", IsoDate(y, n, d)) :
               m \in MonthWords(n)} :
            n \in 1..12, d \in 1..MaxDay, y \in DateYears}

\* "M/D/YYYY", with and without leading zeros
SlashCells ==
    UNION {{DateCell(mm \o <<"/">> \o dd \o <<"/">> \o y, "m_d_yyyy", IsoDate(y, n, d)) :
               mm \in {Dec(n), Dec2(n)}, dd \in {Dec(d), Dec2(d)}} :
            n \in 1..12, d \in 1..MaxDay, y \in DateYears}

IsoCells ==
    {DateCell(IsoDate(y, n, d), "yyyy_mm_dd", IsoDate(y, n, d)) :
        n \in 1..12, d \in 1..MaxDay, y \in DateYears}

\* cells in none of the three formats
OtherCells ==
    {DateCell(<<"c","i","r","c","a"," ","1","9","8","4">>, "other", <<"c","i","r","c","a"," ","1","9","8","4">>),
     DateCell(<<>>, "other", <<>>),
     DateCell(<<"1","9","8","4">>, "other", <<"1","9","8","4">>),
     DateCell(<<"F","o","o"," ","5",","," ","1","9","8","4">>, "other", <<"F","o","o"," ","5",","," ","1","9","8","4">>),
     DateCell(<<"5"," ","J","a","n","u","a","r","y"," ","1","9","8","4">>, "other", <<"5"," ","J","a","n","u","a","r","y"," ","1","9","8","4">>),
     DateCell(<<"J","a","n","u","a","r","y"," ","1","9","8","4">>, "other", <<"J","a","n","u","a","r","y"," ","1","9","8","4">>),
     DateCell(<<"1","9","8","4","/","0","1","/","0","5">>, "other", <<"1","9","8","4","/","0","1","/","0","5">>),
     DateCell(<<"1","/","5","/","8","4">>, "other", <<"1","/","5","/","8","4">>),
     DateCell(<<"J","u","n","e","t","e","e","n","t","h"," ","1","9","8","4">>, "other", <<"J","u","n","e","t","e","e","n","t","h"," ","1","9","8","4">>)}

\* cells in none of the three formats, with whitespace around them
PaddedCells ==
    {DateCell(<<" ","c","i","r","c","a"," ","1","9","8","4">>, "padded", <<"c","i","r","c","a"," ","1","9","8","4">>),
     DateCell(<<"c","i","r","c","a"," ","1","9","8","4"," ">>, "padded", <<"c","i","r","c","a"," ","1","9","8","4">>),
     DateCell(<<" "," ">>, "padded", <<>>)}

\* cells that start with a date and go on
TrailingCells ==
    {DateCell(<<"1","/","5","/","1","9","8","4"," ","e","s","t">>, "trailing", <<"1","9","8","4","-","0","1","-","0","5">>),
     DateCell(<<"J","a","n","u","a","r","y"," ","5",","," ","1","9","8","4"," ","(","a","g","e"," ","4","0",")">>, "trailing", <<"1","9","8","4","-","0","1","-","0","5">>),
     DateCell(<<"1","9","8","4","-","0","1","-","0","5","T","1","0">>, "trailing", <<"1","9","8","4","-","0","1","-","0","5","T","1","0">>),
     DateCell(<<"J","a","n"," ","5","1","9","8","4">>, "trailing", <<"1","9","8","4","-","0","1","-","0","5">>)}

DateCells ==
    MonthDayYearCells \cup SlashCells \cup IsoCells \cup OtherCells \cup PaddedCells
        \cup TrailingCells \cup {DateCell(NaN, "absent", <<>>)}

DateInit ==
    /\ NormIdle /\ FuzzyIdle /\ MergeIdle /\ CallerIdle /\ JobIdle
    /\ fm_pc = "date"
    /\ fm_in \in DateCells
    /\ fm_out = Unset

DateApply ==
    /\ fm_pc = "date"
    /\ fm_out' = standardize_date_format(fm_in.text)
    /\ fm_pc' = "done"
    /\ UNCHANGED <<fm_in, nm_vars, fz_vars, mg_vars, cl_vars, job_vars>>

SpecDate == DateInit /\ [][DateApply]_vars

-----------------------------------------------------------------------------
(* standardize_height_imperial applied to one cell *)

MaxHeightNumber == 12

\* "d-Mon" and "Mon-d" for each spelling of each month abbreviation, and "f-i"
HeightCells ==
    UNION {{DateCell(Dec(d) \o <<"-">> \o m, "number_month", Dec(d) \o <<"-">> \o Dec(n)) :
               m \in CaseForms(MonthAbbr(n))}
           \cup {DateCell(m \o <<"-">> \o Dec(d), "month_number", Dec(n) \o <<"-">> \o Dec(d)) :
               m \in CaseForms(MonthAbbr(n))} :
            n \in 1..12, d \in 0..MaxHeightNumber}
    \cup {DateCell(Dec(f) \o <<"-">> \o Dec(i), "feet_inches", Dec(f) \o <<"-">> \o Dec(i)) :
            f \in 0..MaxHeightNumber, i \in 0..MaxHeightNumber}

HeightInit ==
    /\ NormIdle /\ FuzzyIdle /\ MergeIdle /\ CallerIdle /\ JobIdle
    /\ fm_pc = "height"
    /\ fm_in \in HeightCells
    /\ fm_out = Unset

HeightApply ==
    /\ fm_pc = "height"
    /\ fm_out' = standardize_height_imperial(fm_in.text)
    /\ fm_pc' = "done"
    /\ UNCHANGED <<fm_in, nm_vars, fz_vars, mg_vars, cl_vars, job_vars>>

SpecHeight == HeightInit /\ [][HeightApply]_vars

-----------------------------------------------------------------------------
(* The merge loop run by workers: after a sequential call, a second call
   hands the rows of the loop to workers that take them in any order *)

WorkersInit ==
    /\ NormIdle /\ FuzzyIdle /\ FormatIdle /\ JobIdle
    /\ caller = "workers" /\ caller_pc = "called"
    /\ caller_ret = Unset /\ caller_error = None
    /\ save_arg = Unset /\ save_ret = Unset /\ out_file = NoFile
    /\ first_ret = Unset /\ w_out = <<>>
    /\ MergeInit(CallerBRFiles \cup {Unreadable}, ESPNFiles \cup {Unreadable})

\* the sequential call has ended; its result is kept and the call with
\* workers starts on the same paths
WorkersCall ==
    /\ caller = "workers" /\ caller_pc = "called"
    /\ Returned \/ Raised
    /\ first_ret' = <<ret, error>>
    /\ caller_pc' = "workers"
    /\ pc' = "load"
    /\ br_df' = NoFrame /\ espn_df' = NoFrame
    /\ br_i' = 0 /\ br_lookup' = <<>>
    /\ br_names_for_fuzzy_prepped' = <<>>
    /\ espn_i' = 0
    /\ ret' = None /\ error' = None /\ log' = <<>>
    /\ UNCHANGED <<br_file, espn_file, merged_data, unmatched_players,
                   exact_matches, fuzzy_matches,
                   caller, caller_ret, caller_error, save_arg, save_ret, out_file, w_out,
                   nm_vars, fz_vars, fm_vars, job_vars>>

\* the rows a worker has finished
RowsDone == {w_out[k][1] : k \in 1..Len(w_out)}

\* lines 278-309 run by a worker for row i, any row not yet taken, on the
\* shared index and candidate list; the worker hands back its decision and
\* the record or entry it made
WorkerRow ==
    /\ pc = "merge" /\ caller_pc = "workers"
    /\ \E i \in (1..Len(espn_df.rows)) \ RowsDone :
       \E espn_row \in {espn_df.rows[i]} :
       \E m \in {MatchRow(espn_row, br_lookup, br_names_for_fuzzy_prepped)} :
           /\ w_out' = Append(w_out,
                 <<i, m.kind, Truthy(m.br_player_info),
                   IF Truthy(m.br_player_info)
                   THEN create_ordered_merged_player_entry(m.br_player_info, espn_row)
                   ELSE UnmatchedEntry(espn_row)>>)
           /\ br_lookup' = LookupAfterRow(br_lookup, m, espn_row)
    /\ UNCHANGED <<pc, br_file, espn_file, br_df, espn_df, br_i,
                   br_names_for_fuzzy_prepped, espn_i, merged_data, unmatched_players,
                   exact_matches, fuzzy_matches, ret, error, log,
                   caller, caller_pc, caller_ret, caller_error, save_arg, save_ret,
                   out_file, first_ret, nm_vars, fz_vars, fm_vars, job_vars>>

\* what the worker of row i handed back
OutOfRow(i) == w_out[CHOOSE k \in 1..Len(w_out) : w_out[k][1] = i]

\* the records (merged = TRUE) or entries (merged = FALSE) of rows 1..n, in row order
RECURSIVE InRowOrder(_, _)
InRowOrder(n, merged) ==
    IF n = 0 THEN <<>>
    ELSE IF OutOfRow(n)[3] = merged
         THEN list_append(InRowOrder(n - 1, merged), OutOfRow(n)[4])
         ELSE InRowOrder(n - 1, merged)

\* every row is done: the lists are put together in row order, the counters
\* are counted from the decisions, and lines 311-324 return
Reassemble ==
    /\ pc = "merge" /\ caller_pc = "workers"
    /\ RowsDone = 1..Len(espn_df.rows)
    /\ merged_data' = InRowOrder(Len(espn_df.rows), TRUE)
    /\ unmatched_players' = InRowOrder(Len(espn_df.rows), FALSE)
    /\ exact_matches' = Cardinality({k \in 1..Len(w_out) : w_out[k][2] = "exact"})
    /\ fuzzy_matches' = Cardinality({k \in 1..Len(w_out) : w_out[k][2] = "fuzzy"})
    /\ ret' = <<merged_data', unmatched_players',
                MakeStats(espn_df, br_df, merged_data', unmatched_players',
                          exact_matches', fuzzy_matches')>>
    /\ pc' = "returned"
    /\ UNCHANGED <<br_file, espn_file, br_df, espn_df, br_i, br_lookup,
                   br_names_for_fuzzy_prepped, espn_i, error, log,
                   nm_vars, fz_vars, fm_vars, job_vars, cl_vars>>

WorkersNext ==
    \/ Load \/ FormatBR \/ BuildLookupRow \/ PrepareMerge \/ ProcessRow \/ Finish
    \/ WorkersCall \/ WorkerRow \/ Reassemble

SpecWorkers == WorkersInit /\ [][WorkersNext]_vars

-----------------------------------------------------------------------------
(* pipeline.py: the asset job, fetch -> check -> merge *)

\* scrapers/basketball_reference.py lines 52-70, 232: every key of the
\* record starts as None and the record is returned whatever the page
\* showed; a field the page shows replaces the None
parse_player_page(page) ==
    [k \in 1..Len(LayoutScraper) |->
       <<LayoutScraper[k],
         IF page[LayoutScraper[k]] = NaN THEN None ELSE page[LayoutScraper[k]]>>]

\* lines 301-304: a column of column_order the frame lacks is added, filled
\* with None; the columns are put in that order
FillColumns(df) ==
    [cols |-> LayoutScraper,
     rows |-> [i \in 1..Len(df.rows) |->
                 [c \in {LayoutScraper[k] : k \in 1..Len(LayoutScraper)} |->
                    IF \E k \in 1..Len(df.cols) : df.cols[k] = c
                    THEN df.rows[i][c] ELSE None]]]

\* a scraper's result: a frame, or None
ScrapeResult(frame) == [is_none |-> FALSE, frame |-> frame]

ScrapeNone == [is_none |-> TRUE, frame |-> NoFrame]

\* lines 235-322, main(): one record per player page, the frame of the
\* records, the column fill, return df
scrape_basketball_reference(pages) ==
    ScrapeResult(FillColumns(DataFrameOf([i \in 1..Len(pages) |-> parse_player_page(pages[i])])))

\* scrapers/espn.py lines 83-98: the three cells of a table row as text, an
\* empty cell as the empty string
EspnRecord(row) ==
    [k \in 1..Len(ESPNLayout) |->
       <<ESPNLayout[k], IF row[ESPNLayout[k]] = NaN THEN <<>> ELSE row[ESPNLayout[k]]>>]

\* lines 107-112: None when no row was scraped, else the frame of the rows;
\* a request or a header that fails gives None as well (lines 39, 49, 64, 116, 122)
scrape_espn_nba_leaders(table_rows, page_ok) ==
    IF ~page_ok \/ table_rows = <<>> THEN ScrapeNone
    ELSE ScrapeResult(DataFrameOf([i \in 1..Len(table_rows) |-> EspnRecord(table_rows[i])]))

\* df.empty
df_empty(df) == Len(df.rows) = 0 \/ Len(df.cols) = 0

\* df.to_csv(path, index=False) read back by pd.read_csv: None and the empty
\* string are written as an empty field, which is read as NaN
CsvRoundTrip(df) ==
    [cols |-> df.cols,
     rows |-> [i \in 1..Len(df.rows) |->
                 [c \in {df.cols[k] : k \in 1..Len(df.cols)} |->
                    IF df.rows[i][c] = None \/ df.rows[i][c] = <<>>
                    THEN NaN ELSE df.rows[i][c]]]]

\* a fetch stage that lets an empty frame through
FetchRejects_OnlyNone(result) == result.is_none

\* pipeline.py lines 60 and 102: if df is None or df.empty
FetchRejects(result) == result.is_none \/ df_empty(result.frame)

HasColumn(df, c) == \E k \in 1..Len(df.cols) : df.cols[k] = c

CheckPassed == [passed |-> TRUE, severity |-> "none"]

CheckFailed(severity) == [passed |-> FALSE, severity |-> severity]

\* line 189
required_columns == <<"Name", "Position", "Height_Imperial", "Born_Date">>

\* lines 186-212. name_completeness of a frame without rows is 0/0 = nan,
\* and nan < 80 is False.
basketball_reference_completeness_check(df) ==
    IF \E k \in 1..Len(required_columns) : ~HasColumn(df, required_columns[k])
    THEN CheckFailed("ERROR")
    ELSE IF /\ Len(df.rows) > 0
            /\ 100 * Cardinality({i \in 1..Len(df.rows) : ~pd_isna(df.rows[i]["Name"])})
                 < 80 * Len(df.rows)
    THEN CheckFailed("WARN")
    ELSE CheckPassed

\* pd.to_numeric(value, errors="coerce") is not NaN
IsNumeric(v) ==
    /\ v # NaN /\ v # None /\ v # <<>>
    /\ \A k \in 1..Len(v) : v[k] \in Digits

\* lines 222-246
espn_data_validity_check(df) ==
    IF \E k \in 1..Len(ESPNLayout) : ~HasColumn(df, ESPNLayout[k])
    THEN CheckFailed("ERROR")
    ELSE IF /\ Len(df.rows) > 0
            /\ 100 * Cardinality({i \in 1..Len(df.rows) : IsNumeric(df.rows[i]["PTS"])})
                 < 90 * Len(df.rows)
    THEN CheckFailed("WARN")
    ELSE CheckPassed

\* lines 179 and 215, blocking=True: a check that fails with severity ERROR
\* keeps the downstream asset from running; a WARN does not
StageAfterCheck(result) ==
    IF result.passed THEN "passed"
    ELSE IF result.severity = "ERROR" THEN "blocked" ELSE "warned"

\* the job starts: nothing is fetched, the merge stage waits for its inputs
PipelineInit ==
    /\ NormIdle /\ FuzzyIdle /\ FormatIdle /\ MergeIdle
    /\ caller = "stage" /\ caller_pc = "waiting"
    /\ caller_ret = Unset /\ caller_error = None
    /\ save_arg = Unset /\ save_ret = Unset /\ out_file = NoFile
    /\ first_ret = Unset /\ w_out = <<>>
    /\ br_stage = "pending" /\ espn_stage = "pending"

\* lines 43-83, basketball_reference_data
FetchBR ==
    /\ br_stage = "pending"
    /\ \E pages \in SeqsUpTo(BRRowPool, MaxCallerRows) :
         \E df \in {scrape_basketball_reference(pages)} :
           IF FetchRejects(df)
           THEN br_stage' = "failed" /\ UNCHANGED br_file
           ELSE br_stage' = "fetched" /\ br_file' = CsvFile(CsvRoundTrip(df.frame))
    /\ UNCHANGED <<pc, espn_file, br_df, espn_df, br_i, br_lookup,
                   br_names_for_fuzzy_prepped, espn_i, merged_data, unmatched_players,
                   exact_matches, fuzzy_matches, ret, error, log, espn_stage,
                   nm_vars, fz_vars, fm_vars, cl_vars>>

\* lines 87-123, espn_leaders_data
FetchESPN ==
    /\ espn_stage = "pending"
    /\ \E table_rows \in SeqsUpTo(ESPNRowPool, MaxCallerRows), page_ok \in BOOLEAN :
         \E df \in {scrape_espn_nba_leaders(table_rows, page_ok)} :
           IF FetchRejects(df)
           THEN espn_stage' = "failed" /\ UNCHANGED espn_file
           ELSE espn_stage' = "fetched" /\ espn_file' = CsvFile(CsvRoundTrip(df.frame))
    /\ UNCHANGED <<pc, br_file, br_df, espn_df, br_i, br_lookup,
                   br_names_for_fuzzy_prepped, espn_i, merged_data, unmatched_players,
                   exact_matches, fuzzy_matches, ret, error, log, br_stage,
                   nm_vars, fz_vars, fm_vars, cl_vars>>

\* the blocking check of the primary asset runs on the file the stage wrote
CheckBR ==
    /\ br_stage = "fetched"
    /\ br_stage' = StageAfterCheck(basketball_reference_completeness_check(br_file.frame))
    /\ UNCHANGED <<espn_stage, nm_vars, fz_vars, mg_vars, fm_vars, cl_vars>>

\* the blocking check of the secondary asset
CheckESPN ==
    /\ espn_stage = "fetched"
    /\ espn_stage' = StageAfterCheck(espn_data_validity_check(espn_file.frame))
    /\ UNCHANGED <<br_stage, nm_vars, fz_vars, mg_vars, fm_vars, cl_vars>>

\* both upstream assets are materialized and neither blocking check failed
\* with an error
Unblocked(stage) == stage \in {"passed", "warned"}

\* lines 127-145, cleaned_merged_data: the stage runs once its two inputs
\* are there, and calls clean_and_merge_player_data on the two paths
StageStart ==
    /\ caller = "stage" /\ caller_pc = "waiting"
    /\ Unblocked(br_stage) /\ Unblocked(espn_stage)
    /\ caller_pc' = "called"
    /\ pc' = "load"
    /\ UNCHANGED <<br_file, espn_file, br_df, espn_df, br_i, br_lookup,
                   br_names_for_fuzzy_prepped, espn_i, merged_data, unmatched_players,
                   exact_matches, fuzzy_matches, ret, error, log,
                   caller, caller_ret, caller_error, save_arg, save_ret, out_file,
                   first_ret, w_out, nm_vars, fz_vars, fm_vars, job_vars>>

PipelineNext ==
    \/ FetchBR \/ FetchESPN \/ CheckBR \/ CheckESPN \/ StageStart
    \/ Load \/ FormatBR \/ BuildLookupRow \/ PrepareMerge \/ ProcessRow \/ Finish
    \/ StageCheck \/ StageSave \/ StageFinish

SpecPipeline == PipelineInit /\ [][PipelineNext]_vars

-----------------------------------------------------------------------------
(* standardize_height_imperial applied to a height without inches *)

\* what may follow the feet value: nothing, an apostrophe, "ft" or "feet",
\* the words with or without a space before them
FeetSuffixes ==
    {<<>>, <<"'">>, <<"f","t">>, <<" ","f","t">>, <<"f","e","e","t">>, <<" ","f","e","e","t">>}

\* "<feet><suffix>" for each feet value of one or two digits
FeetOnlyCells ==
    {DateCell(Dec(f) \o x, "feet_only", Dec(f) \o <<"-", "0">>) :
        f \in 0..MaxHeightNumber, x \in FeetSuffixes}

FeetInit ==
    /\ NormIdle /\ FuzzyIdle /\ MergeIdle /\ CallerIdle /\ JobIdle
    /\ fm_pc = "height"
    /\ fm_in \in FeetOnlyCells
    /\ fm_out = Unset

SpecFeet == FeetInit /\ [][HeightApply]_vars

-----------------------------------------------------------------------------
(* format_born_location applied to one cell *)

\* what stands before the city: nothing; the word "in" followed by
\* whitespace, in either letter case; "in" followed by the mis-encoded
\* non-breaking space
LocationPrefixes ==
    {<<>>, <<"i", "n", " ">>, <<"I", "n", " ">>, <<"i", "n", " ", " ">>, <<"i", "n", A_CIRCUMFLEX, NBSP>>}

\* cities, three of which begin with the letters "in"
LocationCities ==
    {<<"A", "k", "r", "o", "n">>, <<"N", "e", "w", " ", "Y", "o", "r", "k">>, <<"I", "n", "d", "i", "a", "n", "a", "p", "o", "l", "i", "s">>,
     <<"I", "n", "d", "i", "a">>, <<"I", "n", "g", "l", "e", "w", "o", "o", "d">>}

LocationRegions == {<<"O", "h", "i", "o">>, <<"I", "n", "d", "i", "a", "n", "a">>}

\* a comma with no, one or two blanks after it
LocationSeparators == {<<",">>, <<",", " ">>, <<",", " ", " ">>}

\* "<prefix><city><separator><region>", expected "<city>, <region>"
LocationCells ==
    {DateCell(p \o c \o x \o r,
              IF p = <<>> THEN "no_prefix" ELSE "in_prefix",
              c \o <<",", " ">> \o r) :
        p \in LocationPrefixes, c \in LocationCities,
        x \in LocationSeparators, r \in LocationRegions}

LocationInit ==
    /\ NormIdle /\ FuzzyIdle /\ MergeIdle /\ CallerIdle /\ JobIdle
    /\ fm_pc = "location"
    /\ fm_in \in LocationCells
    /\ fm_out = Unset

LocationApply ==
    /\ fm_pc = "location"
    /\ fm_out' = format_born_location(fm_in.text)
    /\ fm_pc' = "done"
    /\ UNCHANGED <<fm_in, nm_vars, fz_vars, mg_vars, cl_vars, job_vars>>

SpecLocation == LocationInit /\ [][LocationApply]_vars

-----------------------------------------------------------------------------
(* Claims *)

\* what the caller gets back from the call, once it has ended

\* C1's datasets: one primary row with a name and a position, one secondary
\* row (1, "LEBRON JAMES", 38652)
C1_Inputs ==
    /\ br_file = CsvFile(MakeFrame(LayoutNameOnly, <<BR_LeBron>>))
    /\ espn_file = CsvFile(MakeFrame(ESPNLayout, <<ESPN_LeBron>>))

C1_ExpectedRecord ==
    << <<"ESPN_Rank", <<"1">>>>,
       <<"Name", <<"L","e","B","r","o","n"," ","J","a","m","e","s">>>>,
       <<"ESPN_Points", <<"3","8","6","5","2">>>>,
       <<"Position", <<"F">>>> >>

\* C1: on the primary dataset {Name: "LeBron James", Position: "F"} and the
\* secondary dataset {RK: 1, Player: "LEBRON JAMES", PTS: 38652} the call
\* returns exactly one merged record (rank 1, name "LeBron James", points
\* 38652, position "F"), no unmatched entry, exact_matches = 1 and
\* match_percentage = 100.
C1_EndToEnd ==
    (C1_Inputs /\ (Returned \/ Raised)) =>
        /\ Returned
        /\ ReturnedMerged = <<C1_ExpectedRecord>>
        /\ ReturnedUnmatched = <<>>
        /\ DictGet(ReturnedStats, "exact_matches") = 1
        /\ DictGet(ReturnedStats, "match_percentage")[1]
              = 100 * DictGet(ReturnedStats, "match_percentage")[2]

\* the state C1's call ends in: the first unguarded column access has raised
C1_Raises == C1_Inputs /\ Raised /\ error = KeyError("Born_Location")

\* C2: normalize_name is idempotent: normalizing the result of normalize_name
\* returns it unchanged, for every input string.
C2_Idempotent == nm_pc = "twice" => nm_out2 = nm_out

\* the initials case C2 names: "j.r" normalizes to "jr", which normalizes to ""
C2_Initials ==
    /\ nm_pc = "twice"
    /\ nm_in = <<"j", ".", "r">>
    /\ nm_out = <<"j", "r">>
    /\ nm_out2 = <<>>

\* the call has formatted the primary frame and is building or has built the index
Indexing == pc \in {"lookup", "merge"} \/ (Returned /\ Loaded)

\* the canonical key of primary row i
KeyOfRow(i) == br_df.rows[i]["Normalized_Name"]

\* the first primary row that carries the key of row i
FirstRowOfKey(i) == SetMin({j \in 1..Len(br_df.rows) : KeyOfRow(j) = KeyOfRow(i)})

\* C3: first-seen wins in the exact-match index: at every point of the index
\* loop and after it, each non-empty key of a row read so far is mapped to the
\* row of smallest position that carries the key, so no later row replaces it;
\* the index holds no other key, and none twice.
C3_FirstSeenWins ==
    Indexing =>
        /\ \A i \in 1..br_i :
              KeyOfRow(i) # <<>> =>
                 /\ \E k \in 1..Len(br_lookup) : br_lookup[k][1] = KeyOfRow(i)
                 /\ \A k \in 1..Len(br_lookup) :
                       br_lookup[k][1] = KeyOfRow(i) =>
                          br_lookup[k][2] = row_to_dict(br_df, FirstRowOfKey(i))
        /\ \A k \in 1..Len(br_lookup) :
              /\ br_lookup[k][1] # <<>>
              /\ \E i \in 1..br_i : KeyOfRow(i) = br_lookup[k][1]
              /\ \A l \in 1..Len(br_lookup) : br_lookup[l][1] = br_lookup[k][1] => l = k

\* two different primary rows share a key, and the index holds the first
C3_Collision ==
    /\ pc = "merge"
    /\ Len(br_df.rows) = 2
    /\ KeyOfRow(1) # <<>>
    /\ KeyOfRow(2) = KeyOfRow(1)
    /\ row_to_dict(br_df, 2) # row_to_dict(br_df, 1)
    /\ br_lookup = << <<KeyOfRow(1), row_to_dict(br_df, 1)>> >>

\* the tokens of each secondary name a call of fuzzy_name_match may be given
TokensOfName == [name \in FuzzyNames |-> str_split(normalize_name(name))]

\* the tokens of the secondary name the call was given
NameTokens == TokensOfName[fz_name]

\* how many of them the token set of candidate k holds
SharedCount(k) ==
    Cardinality({i \in 1..Len(NameTokens) : NameTokens[i] \in fz_cands[k][2]})

\* count >= tokenCount * threshold, the threshold being fz_thr / 10
ReachesCount(k) == 10 * SharedCount(k) >= Len(NameTokens) * fz_thr

Candidates == 1..Len(fz_cands)

\* C4: fuzzy_name_match returns a candidate only if the count of the secondary
\* name's tokens found in the candidate's token set is at least tokenCount x
\* threshold, and returns no match when no candidate reaches that count; with
\* threshold 0.8 and two tokens a candidate sharing one token is never returned
\* and, when candidates share both, one of them is.
C4_Threshold ==
    fz_pc = "returned" =>
        /\ fz_ret # None => \E k \in Candidates : fz_ret = fz_cands[k][1]
        /\ \A k \in Candidates : fz_ret = fz_cands[k][1] => ReachesCount(k)
        /\ (\A k \in Candidates : ~ReachesCount(k)) => fz_ret = None
        /\ (fz_thr = 8 /\ Len(NameTokens) = 2) =>
              /\ \A k \in Candidates : SharedCount(k) = 1 => fz_ret # fz_cands[k][1]
              /\ (\E k \in Candidates : SharedCount(k) = 2) =>
                    \E k \in Candidates : SharedCount(k) = 2 /\ fz_ret = fz_cands[k][1]

\* threshold 0.8, two tokens: the first candidate shares one, the second both,
\* and the second is returned
C4_Boundary ==
    /\ fz_pc = "returned"
    /\ fz_thr = 8
    /\ Len(NameTokens) = 2
    /\ Len(fz_cands) = 2
    /\ SharedCount(1) = 1
    /\ SharedCount(2) = 2
    /\ fz_ret = fz_cands[2][1]

\* the candidates fuzzy_name_match may take: a non-empty token set that reaches
\* the count
Eligible == {k \in Candidates : fz_cands[k][2] # {} /\ ReachesCount(k)}

\* the eligible candidate of highest score, the first of them in list order
\* (the score is SharedCount(k) / tokenCount, the same denominator for all)
BestEligible ==
    CHOOSE k \in Eligible :
        \A j \in Eligible :
            \/ SharedCount(j) < SharedCount(k)
            \/ SharedCount(j) = SharedCount(k) /\ k <= j

\* the loop of fuzzy_name_match over the whole list, with no early return
RECURSIVE WholeListScan(_, _, _)
WholeListScan(i, best, best_count) ==
    IF i > Len(fz_cands) THEN best
    ELSE IF i \in Eligible /\ SharedCount(i) > best_count
         THEN WholeListScan(i + 1, fz_cands[i][1], SharedCount(i))
         ELSE WholeListScan(i + 1, best, best_count)

\* C5: fuzzy_name_match returns, among the candidates that meet the
\* threshold, the one of highest score, on equal scores the first in list
\* order; this is also what the scan of the whole list without the early
\* return at score 1.0 gives.
C5_BestFirst ==
    (fz_pc = "returned" /\ NameTokens # <<>>) =>
        /\ fz_ret = IF Eligible = {} THEN None ELSE fz_cands[BestEligible][1]
        /\ fz_ret = WholeListScan(1, None, -1)

\* two candidates of equal score below 1.0 meet the threshold; the first is returned
C5_Tie ==
    /\ fz_pc = "returned"
    /\ Len(NameTokens) = 2
    /\ Len(fz_cands) = 2
    /\ Eligible = {1, 2}
    /\ SharedCount(1) = 1
    /\ SharedCount(2) = 1
    /\ fz_ret = fz_cands[1][1]

\* the merge loop is running or has run
Merging == pc = "merge" \/ (Returned /\ Loaded)

\* the canonical key of secondary row i
EspnKey(i) == espn_df.rows[i]["Normalized_ESPN_Name"]

KeyInIndex(i) ==
    EspnKey(i) # <<>> /\ \E k \in 1..Len(br_lookup) : br_lookup[k][1] = EspnKey(i)

\* the merged record of secondary row i, a row that was merged: records are
\* appended in row order
MergedRecordOf(i) == merged_data[Cardinality({j \in 1..i : log[j].merged})]

\* the unmatched entry of secondary row i, a row that was not merged
UnmatchedEntryOf(i) == unmatched_players[Cardinality({j \in 1..i : ~log[j].merged})]

\* record carries every field of the index entry but the internal key and the
\* fields of the secondary row, and carries the rank and metric of espn_row
BuiltFrom(record, entry, espn_row) ==
    /\ \A k \in 1..Len(entry) :
          entry[k][1] \notin {"Normalized_Name", "ESPN_Rank", "ESPN_Points"} =>
             \E l \in 1..Len(record) : record[l] = entry[k]
    /\ \E l \in 1..Len(record) : record[l] = <<"ESPN_Rank", espn_row["RK"]>>
    /\ \E l \in 1..Len(record) : record[l] = <<"ESPN_Points", espn_row["PTS"]>>

\* C6: exact match takes precedence over fuzzy match: a secondary row whose
\* key is non-empty and in the index is merged with the index entry of exactly
\* that key, counts in exact_matches and not in fuzzy_matches, and
\* fuzzy_name_match is not called for it; fuzzy_matches counts only rows whose
\* key is not in the index.
C6_ExactFirst ==
    Merging =>
        /\ exact_matches = Cardinality({i \in 1..Len(log) : KeyInIndex(i)})
        /\ fuzzy_matches = Cardinality({i \in 1..Len(log) : log[i].kind = "fuzzy"})
        /\ \A i \in 1..Len(log) :
              /\ KeyInIndex(i) =>
                    /\ log[i].kind = "exact"
                    /\ ~log[i].fuzzy_called
                    /\ log[i].key = EspnKey(i)
                    /\ log[i].merged
                    /\ \A k \in 1..Len(br_lookup) :
                          br_lookup[k][1] = EspnKey(i) =>
                             BuiltFrom(MergedRecordOf(i), br_lookup[k][2], espn_df.rows[i])
              /\ log[i].kind = "fuzzy" => ~KeyInIndex(i) /\ log[i].fuzzy_called

\* one row matched exactly without a call of fuzzy_name_match, another row,
\* whose key the index lacks, matched by fuzzy_name_match
C6_BothTiers ==
    /\ Returned
    /\ Len(log) = 2
    /\ KeyInIndex(1) /\ log[1].kind = "exact" /\ ~log[1].fuzzy_called
    /\ ~KeyInIndex(2) /\ log[2].kind = "fuzzy"
    /\ exact_matches = 1 /\ fuzzy_matches = 1

\* C7: for every pair of loaded datasets the merge loop runs to completion
\* and every secondary row produces exactly one output, a merged record or an
\* unmatched entry: the call never raises, each row read so far has one output,
\* and on return every row has been read.
C7_EveryRowOneOutput ==
    (Loaded /\ pc # "load") =>
        /\ ~Raised
        /\ Merging =>
              /\ Len(log) = espn_i
              /\ Len(merged_data) + Len(unmatched_players) = espn_i
              /\ Len(merged_data) = Cardinality({i \in 1..espn_i : log[i].merged})
        /\ Returned =>
              /\ espn_i = Len(espn_file.frame.rows)
              /\ Len(ReturnedMerged) + Len(ReturnedUnmatched) = Len(espn_file.frame.rows)

\* both datasets were loaded, the secondary one has rows, and the call raised
\* before the merge loop read any of them
C7_RaisedBeforeLoop ==
    /\ Loaded
    /\ Raised
    /\ Len(espn_file.frame.rows) > 0
    /\ espn_i = 0
    /\ merged_data = <<>> /\ unmatched_players = <<>>

\* C8: a secondary row whose name is absent or normalizes to the empty
\* canonical key is never matched, exactly or fuzzily, whatever the primary
\* dataset holds: it is not merged, and its entry in the unmatched list carries
\* the empty key.
C8_EmptyKeyUnmatched ==
    Merging =>
        /\ \A i \in 1..Len(espn_df.rows) :
              pd_isna(espn_file.frame.rows[i]["Player"]) => EspnKey(i) = <<>>
        /\ \A i \in 1..Len(log) :
              EspnKey(i) = <<>> =>
                 /\ log[i].kind = "none"
                 /\ ~log[i].merged
                 /\ UnmatchedEntryOf(i) =
                       << <<"ESPN_Player", espn_file.frame.rows[i]["Player"]>>,
                          <<"ESPN_Rank", espn_file.frame.rows[i]["RK"]>>,
                          <<"ESPN_Points", espn_file.frame.rows[i]["PTS"]>>,
                          <<"Normalized_Name", <<>> >> >>
        /\ Returned => ReturnedUnmatched = unmatched_players

\* a row with an absent name and a row whose name is only a suffix token both
\* end unmatched, while the primary dataset has rows, one of them without a name
C8_AbsentAndSuffix ==
    /\ Returned
    /\ Len(log) = 2
    /\ pd_isna(espn_file.frame.rows[1]["Player"])
    /\ espn_file.frame.rows[2]["Player"] = <<"J","r",".">>
    /\ EspnKey(2) = <<>>
    /\ Len(ReturnedUnmatched) = 2
    /\ \E j \in 1..Len(br_file.frame.rows) : pd_isna(br_file.frame.rows[j]["Name"])
    /\ br_lookup # <<>>

\* the secondary rows that were merged, in row order: the k-th of them gave
\* the k-th merged record
MergedRows == SelectSeq([i \in 1..Len(log) |-> i], LAMBDA i : log[i].merged)

LeadingFields == <<"ESPN_Rank", "Name", "ESPN_Points">>

\* the columns of the primary file other than the three leading fields and
\* the internal key, in the file's order
OtherPrimaryColumns ==
    SelectSeq(br_file.frame.cols,
              LAMBDA c : c \notin {"ESPN_Rank", "Name", "ESPN_Points", "Normalized_Name"})

\* those of them the engine keeps
KeptPrimaryColumns ==
    SelectSeq(OtherPrimaryColumns,
              LAMBDA c : c \notin {"Pronunciation", "High School", "College", "Draft", "URL"})

\* the name of record is the display name of a primary row and is the name of
\* the index entry the row was matched to; rank and metric are those of
\* secondary row i
ValuesOf(record, i) ==
    /\ DictGet(record, "ESPN_Rank") = espn_file.frame.rows[i]["RK"]
    /\ DictGet(record, "ESPN_Points") = espn_file.frame.rows[i]["PTS"]
    /\ DictGet(record, "Name") = DictGet(DictGet(br_lookup, log[i].key), "Name")
    /\ \E j \in 1..Len(br_file.frame.rows) :
          br_file.frame.rows[j]["Name"] = DictGet(record, "Name")

\* C9 as stated: every merged record has ESPN_Rank, Name, ESPN_Points as its
\* first three fields, followed by all columns of the primary dataset in
\* their original order, never Normalized_Name; the name is the primary
\* record's display name, rank and metric are the secondary row's.
C9_AllPrimaryColumns ==
    Merging =>
        \A k \in 1..Len(merged_data) :
            /\ DictKeys(merged_data[k]) = LeadingFields \o OtherPrimaryColumns
            /\ ValuesOf(merged_data[k], MergedRows[k])

\* C9, amended: every merged record has ESPN_Rank, Name, ESPN_Points as its
\* first three fields, followed by the columns of the primary dataset in their
\* original order except Pronunciation, High School, College, Draft and URL,
\* which the engine drops, never Normalized_Name; the name is the primary
\* record's display name, rank and metric are the secondary row's.
C9_KeptPrimaryColumns ==
    Merging =>
        \A k \in 1..Len(merged_data) :
            /\ DictKeys(merged_data[k]) = LeadingFields \o KeptPrimaryColumns
            /\ ValuesOf(merged_data[k], MergedRows[k])

\* a record merged from a primary file in the scraper's layout, which has
\* columns the engine drops, returned without them
C9_ScraperLayout ==
    /\ Returned
    /\ br_file.frame.cols = LayoutScraper
    /\ Len(ReturnedMerged) = 1
    /\ DictKeys(ReturnedMerged[1]) =
          <<"ESPN_Rank", "Name", "ESPN_Points", "Position", "Height_Imperial",
            "Born_Date", "Born_Location", "NBA_Debut">>

\* C10: if either input dataset cannot be loaded, the call does not raise and
\* returns an empty merged list, an empty unmatched list and an empty stats
\* record.
C10_LoadFailure ==
    (~Loaded /\ pc # "load") =>
        /\ Returned
        /\ error = None
        /\ ret = << <<>>, <<>>, <<>> >>

\* the primary file was readable, the secondary one was not, and the call
\* returned the three empty values
C10_SecondaryUnreadable ==
    /\ br_file.readable
    /\ ~espn_file.readable
    /\ Returned
    /\ ret = << <<>>, <<>>, <<>> >>

\* C11: save_merged_data called on an empty list returns False and leaves no
\* file; the stage, when the merge returned zero merged records, raises "No
\* data was successfully merged" with no save attempted; and the stage
\* returns the output path only when the merged list was non-empty and the
\* save returned True with the file written.
C11_EmptyResult ==
    /\ (save_arg = <<>> /\ caller_pc # "called") =>
          (save_ret = PyFalse /\ out_file = NoFile /\ caller_error = None)
    /\ (caller = "stage" /\ Returned /\ ReturnedMerged = <<>> /\ caller_pc # "called") =>
          /\ caller_pc = "raised"
          /\ caller_error = NoDataMerged
          /\ save_arg = Unset /\ save_ret = Unset /\ out_file = NoFile
    /\ (caller = "stage" /\ caller_ret # Unset) =>
          /\ caller_ret = OutputPath
          /\ Returned /\ Truthy(ReturnedMerged)
          /\ save_arg = ReturnedMerged /\ save_ret = PyTrue /\ out_file.exists

\* the stage has raised after a merge of readable files, the secondary one
\* with a row, that matched nothing
C11_StageRaisedOnEmpty ==
    /\ caller = "stage" /\ Loaded /\ Returned
    /\ Len(espn_df.rows) > 0 /\ ReturnedMerged = <<>>
    /\ caller_pc = "raised" /\ caller_error = NoDataMerged

C13_MatchPercentage ==
    (Returned /\ Loaded) =>
        \E p \in {DictGet(ReturnedStats, "match_percentage")} :
            /\ p[2] > 0
            /\ IF Len(espn_file.frame.rows) > 0
               THEN p[1] * Len(espn_file.frame.rows) = Len(ReturnedMerged) * 100 * p[2]
               ELSE p[1] = 0
            /\ 0 <= p[1] /\ p[1] <= 100 * p[2]

\* one of two secondary rows was merged: 50 percent
C13_Half ==
    /\ Returned /\ Loaded
    /\ Len(espn_file.frame.rows) = 2 /\ Len(ReturnedMerged) = 1
    /\ DictGet(ReturnedStats, "match_percentage") = <<100, 2>>

\* the secondary rows read so far that were not merged, in row order
UnmatchedRows == SelectSeq([i \in 1..Len(log) |-> i], LAMBDA i : ~log[i].merged)

\* C14: during and after the merge loop the rows are read in file order, one
\* at a time; the merged list holds, in row order, one record per merged row
\* with that row's rank and points, and the unmatched list holds, in row
\* order, the entry of each row not merged: both lists are subsequences of
\* the secondary dataset, nothing reordered and nothing twice.
C14_RowOrder ==
    Merging =>
        /\ \A i \in 1..Len(log) : log[i].row = i
        /\ Len(merged_data) = Len(MergedRows)
        /\ \A k \in 1..Len(MergedRows) :
              /\ DictGet(merged_data[k], "ESPN_Rank") = espn_file.frame.rows[MergedRows[k]]["RK"]
              /\ DictGet(merged_data[k], "ESPN_Points") = espn_file.frame.rows[MergedRows[k]]["PTS"]
        /\ Len(unmatched_players) = Len(UnmatchedRows)
        /\ \A k \in 1..Len(UnmatchedRows) :
              unmatched_players[k] = UnmatchedEntry(espn_df.rows[UnmatchedRows[k]])
        /\ Returned => (ReturnedMerged = merged_data /\ ReturnedUnmatched = unmatched_players)

\* two rows of different rank were merged and returned
C14_TwoMerged ==
    /\ Returned /\ Loaded
    /\ Len(ReturnedMerged) = 2
    /\ DictGet(ReturnedMerged[1], "ESPN_Rank") # DictGet(ReturnedMerged[2], "ESPN_Rank")

\* C15 as stated: a "Month Day, Year" cell whose month is one of the 12 names
\* or 3-letter abbreviations, and an M/D/YYYY cell, become the zero-padded
\* YYYY-MM-DD; a YYYY-MM-DD cell is returned unchanged; a cell in none of
\* the three formats is returned unchanged.
C15_AsStated ==
    fm_pc = "done" =>
        /\ fm_in.shape \in {"month_day_year", "m_d_yyyy"} => fm_out = fm_in.expected
        /\ fm_in.shape = "yyyy_mm_dd" => fm_out = fm_in.text
        /\ fm_in.shape \in {"other", "padded"} => fm_out = fm_in.text

\* C15, amended: a "Month Day, Year" cell whose month is one of the 12 names
\* or 3-letter abbreviations, and an M/D/YYYY cell, become the zero-padded
\* YYYY-MM-DD; a YYYY-MM-DD cell is returned unchanged; a cell in none of
\* the three formats is returned with the whitespace around it stripped and
\* otherwise unchanged; a cell that starts with a date in the first or third
\* format and goes on becomes that date alone; an absent cell becomes the
\* empty string.
C15_Stripped ==
    fm_pc = "done" =>
        /\ fm_in.shape \in {"month_day_year", "m_d_yyyy", "trailing"} => fm_out = fm_in.expected
        /\ fm_in.shape = "yyyy_mm_dd" => fm_out = fm_in.text
        /\ fm_in.shape \in {"other", "padded"} => fm_out = str_strip(fm_in.text)
        /\ fm_in.shape = "absent" => fm_out = <<>>

\* " circa 1984" was formatted: the result has lost the leading space
C15_PaddedCirca ==
    /\ fm_pc = "done"
    /\ fm_in.text = <<" ","c","i","r","c","a"," ","1","9","8","4">>
    /\ fm_out = <<"c","i","r","c","a"," ","1","9","8","4">>

\* C16: for each of the 12 month abbreviations, in any letter case, with
\* month number n, and every number d, standardize_height_imperial turns
\* "d-<Mon>" into "d-n" and "<Mon>-d" into "n-d"; a well-formed "f-i" is
\* returned unchanged.
C16_HeightRepair ==
    fm_pc = "done" =>
        /\ fm_in.shape \in {"number_month", "month_number"} => fm_out = fm_in.expected
        /\ fm_in.shape = "feet_inches" => fm_out = fm_in.text

\* "6-Jun" was repaired to "6-6"
C16_SixJun ==
    /\ fm_pc = "done"
    /\ fm_in.text = <<"6","-","J","u","n">>
    /\ fm_out = <<"6","-","6">>

\* the letters and digits of s, in order
Letters(s) == SelectSeq(s, IsWord)

\* token is a generational suffix standing alone, with or without its period
StandaloneSuffix(token) ==
    \E k \in 1..Len(SuffixAlternatives) :
        token = SuffixAlternatives[k] \/ token = SuffixAlternatives[k] \o <<".">>

\* token is another word: its letters are not those of a suffix
OtherWord(token) ==
    \A k \in 1..Len(SuffixAlternatives) : Letters(token) # SuffixAlternatives[k]

\* the letters of the tokens kept, given which of them are kept
RECURSIVE KeptLetters(_, _)
KeptLetters(tokens, keep) ==
    IF tokens = <<>> THEN <<>>
    ELSE (IF keep[1] THEN Letters(tokens[1]) ELSE <<>>)
             \o KeptLetters(Tail(tokens), Tail(keep))

\* C17: suffix stripping is whole-token only.  The letters of the key are the
\* letters of the whitespace-separated tokens of the lower-cased name, with
\* every token that is a suffix standing alone (jr, sr, ii, iii, iv, v, with
\* or without a trailing period) left out and every other word kept whole; a
\* token that is a suffix with other punctuation in or around it may go
\* either way.
C17_WholeTokenOnly ==
    (nm_pc # "start" /\ ~pd_isna(nm_in)) =>
        \E tokens \in {str_split(str_lower(nm_in))} :
        \E keep \in [1..Len(tokens) -> BOOLEAN] :
            /\ \A k \in 1..Len(tokens) :
                  /\ StandaloneSuffix(tokens[k]) => ~keep[k]
                  /\ OtherWord(tokens[k]) => keep[k]
            /\ Letters(nm_out) = KeptLetters(tokens, keep)

\* "V.J. Edgecombe" was normalized to "j edgecombe": the v of the initials,
\* which does not stand alone, is gone
C17_InitialsLost ==
    /\ nm_pc # "start"
    /\ nm_in = <<"V",".","J","."," ","E","d","g","e","c","o","m","b","e">>
    /\ nm_out = <<"j"," ","e","d","g","e","c","o","m","b","e">>

\* the index the index loop builds from the formatted primary frame
RECURSIVE BuiltLookup(_, _)
BuiltLookup(df, i) ==
    IF i = 0 THEN <<>> ELSE LookupInsert(BuiltLookup(df, i - 1), df, i)

\* the fields of a merged record that come from the primary record
PrimaryFields(record) ==
    SelectSeq(record, LAMBDA kv : kv[1] \notin {"ESPN_Rank", "ESPN_Points"})

\* C19: during and after the merge loop the index and the fuzzy candidate
\* list are what the build made of the primary frame: every index entry,
\* its Normalized_Name included, and every candidate is as built; two rows
\* merged with the same index entry carry the same primary field values.
C19_IndexFrozen ==
    Merging =>
        /\ br_lookup = BuiltLookup(br_df, Len(br_df.rows))
        /\ br_names_for_fuzzy_prepped = PrepFuzzyList(br_df)
        /\ \A k \in 1..Len(br_lookup) :
              DictGet(br_lookup[k][2], "Normalized_Name") = br_lookup[k][1]
        /\ \A i, j \in 1..Len(log) :
              (log[i].merged /\ log[j].merged /\ log[i].key = log[j].key) =>
                  PrimaryFields(MergedRecordOf(i)) = PrimaryFields(MergedRecordOf(j))

\* two rows were merged with the same index entry, one by its key and one
\* by the fuzzy tier
C19_SameEntryTwice ==
    /\ Returned /\ Loaded
    /\ Len(log) = 2 /\ log[1].merged /\ log[2].merged
    /\ log[1].key = log[2].key /\ log[1].kind # log[2].kind

\* C18: the decision for a row does not depend on the other rows.  When the
\* rows of the merge loop are processed by workers in any order over the
\* shared index and candidate list and the results are put together in row
\* order, the call returns the merged list, the unmatched list and the
\* statistics the sequential loop returned.
C18_AnyInterleaving ==
    (caller = "workers" /\ caller_pc = "workers" /\ (Returned \/ Raised)) =>
        <<ret, error>> = first_ret

\* the workers took row 2 before row 1, both rows were merged, and the call
\* has returned
C18_Row2First ==
    /\ caller = "workers" /\ caller_pc = "workers" /\ Returned
    /\ Len(w_out) = 2 /\ w_out[1][1] = 2
    /\ Len(ReturnedMerged) = 2

\* C20: after a load failure every caller checks for the all-empty result
\* before using it: neither the stage nor main reads a field of the empty
\* stats record, so no caller ends in a missing-key error.
C20_CallersCheckEmpty ==
    (caller \in {"stage", "main"} /\ ~Loaded) => caller_error[1] # "KeyError"

\* main, after a load failure, has raised KeyError for the first stats field
\* print_merge_results reads
C20_MainKeyError ==
    /\ caller = "main" /\ ~Loaded
    /\ ret = << <<>>, <<>>, <<>> >>
    /\ caller_pc = "raised"
    /\ caller_error = KeyError("total_espn_players")

\* C21: at every state of the merge loop, after each prefix of the secondary
\* rows, exact_matches + fuzzy_matches is the number of merged records and
\* merged records + unmatched entries is the number of rows read; in the
\* returned statistics exact_matches + fuzzy_matches = total_matches = number
\* of merged records, unmatched = number of unmatched entries, and
\* total_matches + unmatched = total_espn_players = rows of the secondary file.
C21_StatsConsistent ==
    Merging =>
        /\ exact_matches + fuzzy_matches = Len(merged_data)
        /\ Len(merged_data) + Len(unmatched_players) = espn_i
        /\ Returned =>
              /\ DictGet(ReturnedStats, "exact_matches") + DictGet(ReturnedStats, "fuzzy_matches")
                    = DictGet(ReturnedStats, "total_matches")
              /\ DictGet(ReturnedStats, "total_matches") = Len(ReturnedMerged)
              /\ DictGet(ReturnedStats, "unmatched") = Len(ReturnedUnmatched)
              /\ DictGet(ReturnedStats, "total_matches") + DictGet(ReturnedStats, "unmatched")
                    = DictGet(ReturnedStats, "total_espn_players")
              /\ DictGet(ReturnedStats, "total_espn_players") = Len(espn_file.frame.rows)

\* a call returned with one fuzzy match, no exact match and one unmatched row
C21_FuzzyAndUnmatched ==
    /\ Returned /\ Loaded
    /\ DictGet(ReturnedStats, "fuzzy_matches") = 1
    /\ DictGet(ReturnedStats, "exact_matches") = 0
    /\ DictGet(ReturnedStats, "unmatched") = 1

\* the first primary row whose canonical key is key
FirstRowWithKey(key) == SetMin({j \in 1..Len(br_df.rows) : KeyOfRow(j) = key})

\* C22: during and after the merge loop the canonical key of every entry of
\* the fuzzy candidate list is a key of the index; for every row that reached
\* fuzzy_name_match, a name returned means the row was merged by the fuzzy
\* tier under the canonical key of that name, with the first primary row
\* carrying the key, and no name returned means the row was not merged; a
\* name returned with its key absent from the index never happens, and
\* fuzzy_matches counts the rows for which a name was returned.
C22_FuzzyKeyInIndex ==
    Merging =>
        /\ \A k \in 1..Len(br_names_for_fuzzy_prepped) :
              DictHas(br_lookup, normalize_name(br_names_for_fuzzy_prepped[k][1]))
        /\ \A i \in 1..Len(log) :
              log[i].fuzzy_called =>
                 \E name \in {fuzzy_name_match(espn_df.rows[i]["Player"],
                                               br_names_for_fuzzy_prepped,
                                               DefaultThresholdTenths)} :
                    IF Truthy(name)
                    THEN /\ log[i].kind = "fuzzy" /\ log[i].merged
                         /\ log[i].key = normalize_name(name)
                         /\ DictHas(br_lookup, log[i].key)
                         /\ BuiltFrom(MergedRecordOf(i),
                                      row_to_dict(br_df, FirstRowWithKey(log[i].key)),
                                      espn_df.rows[i])
                    ELSE log[i].kind = "none" /\ ~log[i].merged
        /\ fuzzy_matches = Cardinality({i \in 1..Len(log) : log[i].fuzzy_called /\ log[i].merged})

\* a row was merged by the fuzzy tier while two primary rows carry the key
C22_FuzzyOnSharedKey ==
    /\ Returned /\ Loaded
    /\ Len(br_df.rows) = 2 /\ KeyOfRow(1) = KeyOfRow(2)
    /\ Len(log) >= 1 /\ log[1].kind = "fuzzy" /\ log[1].merged

\* The columns clean_and_merge_player_data reads without a test (cleaning.py
\* lines 243-249 and 280-282).
MergeReads(df, columns) == \A k \in 1..Len(columns) : HasColumn(df, columns[k])

C24_FeetOnly ==
    (fm_pc = "done" /\ fm_in.shape = "feet_only") => fm_out = fm_in.expected

\* "10" was returned as "1-0": the feet-and-inches pattern, tried first,
\* took the first digit as the feet and the second as the inches
C24_TenFeet ==
    /\ fm_pc = "done"
    /\ fm_in.text = <<"1", "0">>
    /\ fm_out = <<"1", "-", "0">>

\* C25: format_born_location removes only a leading standalone word "in",
\* with the mis-encoded non-breaking space after it, and otherwise changes
\* only whitespace runs and the spacing after commas: the city and the
\* region appear unchanged in the result, also when the city is the first
\* word and begins with the letters "in".
C25_OnlyStandaloneIn ==
    fm_pc = "done" => fm_out = fm_in.expected

\* "Indianapolis, Indiana" without a prefix came out as "dianapolis, Indiana"
C25_Indianapolis ==
    /\ fm_pc = "done"
    /\ fm_in.text = <<"I", "n", "d", "i", "a", "n", "a", "p", "o", "l", "i", "s", ",", " ", "I", "n", "d", "i", "a", "n", "a">>
    /\ fm_out = <<"d", "i", "a", "n", "a", "p", "o", "l", "i", "s", ",", " ", "I", "n", "d", "i", "a", "n", "a">>

=============================================================================
